---- MODULE Spec2Model ----
(***************************************************************************)
(* Model of the statistical aggregation engine of the WebSocket benchmark  *)
(* analysis (analysis/src/stats_calculator.py).                            *)
(*                                                                         *)
(* A table (pandas DataFrame) is a sequence of rows; a row is a record.    *)
(* A float is a record [cls, num, den]: cls "fin" with the exact value     *)
(* num/den (den > 0, lowest terms), or "nan", "inf", "-inf".  Measured     *)
(* quantities are integers in the unit the name of the column states.      *)
(***************************************************************************)
EXTENDS Integers, Sequences, FiniteSets, TLC

(***************************************************************************)
(* Bounds of the model.                                                    *)
(***************************************************************************)
MaxRows == 3        \* rows of an observation table
MaxStatsRows == 3   \* rows of an RTT aggregate table
MaxRelRows == 2     \* rows of a reliability table
MaxSamples == 11    \* samples with a valid timestamp of a server
MaxInvalid == 1     \* samples without a valid timestamp of a server
MaxThroughput == 3  \* throughput samples of the first library
MaxStabRows == 4    \* rows of a connection stability table
MaxLoadSamples == 3 \* resource samples of a table of load samples
MaxLoads == 2       \* load levels of a library in an aggregate table

(***************************************************************************)
(* Integer helpers.                                                        *)
(***************************************************************************)
Abs(x) == IF x < 0 THEN -x ELSE x

RECURSIVE GCDNat(_, _)
GCDNat(a, b) == IF b = 0 THEN a ELSE GCDNat(b, a % b)

GCD(a, b) == GCDNat(Abs(a), Abs(b))

RECURSIVE Pow10(_)
Pow10(k) == IF k = 0 THEN 1 ELSE 10 * Pow10(k - 1)

(***************************************************************************)
(* Floats (IEEE-754 doubles as numpy/pandas use them), in exact arithmetic.*)
(***************************************************************************)
NaN == [cls |-> "nan", num |-> 0, den |-> 1]
PosInf == [cls |-> "inf", num |-> 0, den |-> 1]
NegInf == [cls |-> "-inf", num |-> 0, den |-> 1]

\* the float n/d, d /= 0
Frac(n, d) ==
    LET g == GCD(n, d)
        s == IF d < 0 THEN -1 ELSE 1
    IN [cls |-> "fin", num |-> s * (n \div g), den |-> s * (d \div g)]

Flt(n) == [cls |-> "fin", num |-> n, den |-> 1]

IsNaN(x) == x.cls = "nan"
IsFin(x) == x.cls = "fin"

\* sign of a float that is not nan
Sign(x) == CASE x.cls = "inf" -> 1
             [] x.cls = "-inf" -> -1
             [] OTHER -> IF x.num > 0 THEN 1 ELSE IF x.num < 0 THEN -1 ELSE 0

\* x / y of numpy floats: a zero divisor gives nan (0/0) or an infinity,
\* never an exception
FDiv(x, y) ==
    IF IsNaN(x) \/ IsNaN(y) THEN NaN
    ELSE IF ~IsFin(x) THEN (IF ~IsFin(y) THEN NaN
                            ELSE IF Sign(x) * (IF Sign(y) < 0 THEN -1 ELSE 1) > 0
                                 THEN PosInf ELSE NegInf)
    ELSE IF ~IsFin(y) THEN Flt(0)
    ELSE IF y.num = 0 THEN (IF x.num = 0 THEN NaN
                            ELSE IF x.num > 0 THEN PosInf ELSE NegInf)
    ELSE Frac(x.num * y.den, x.den * y.num)

\* x * y of numpy floats
FMul(x, y) ==
    IF IsNaN(x) \/ IsNaN(y) THEN NaN
    ELSE IF ~IsFin(x) \/ ~IsFin(y)
         THEN (IF Sign(x) * Sign(y) = 0 THEN NaN
               ELSE IF Sign(x) * Sign(y) > 0 THEN PosInf ELSE NegInf)
    ELSE Frac(x.num * y.num, x.den * y.den)

\* x - y of numpy floats
FSub(x, y) ==
    IF IsNaN(x) \/ IsNaN(y) THEN NaN
    ELSE IF ~IsFin(x) THEN (IF y.cls = x.cls THEN NaN ELSE x)
    ELSE IF ~IsFin(y) THEN (IF y.cls = "inf" THEN NegInf ELSE PosInf)
    ELSE Frac(x.num * y.den - y.num * x.den, x.den * y.den)

\* a/b > c/d for a, c >= 0 and b, d > 0, by comparing the continued
\* fractions (no product is formed)
RECURSIVE RatGt(_, _, _, _)
RatGt(a, b, c, d) ==
    IF a \div b # c \div d THEN a \div b > c \div d
    ELSE IF a % b = 0 THEN FALSE
    ELSE IF c % d = 0 THEN TRUE
    ELSE RatGt(d, c % d, b, a % b)

\* x > y of floats: every comparison with nan is false
FGt(x, y) ==
    IF IsNaN(x) \/ IsNaN(y) THEN FALSE
    ELSE IF x.cls = "inf" THEN y.cls # "inf"
    ELSE IF x.cls = "-inf" THEN FALSE
    ELSE IF y.cls = "inf" THEN FALSE
    ELSE IF y.cls = "-inf" THEN TRUE
    ELSE IF x.num >= 0 /\ y.num >= 0 THEN RatGt(x.num, x.den, y.num, y.den)
    ELSE IF x.num < 0 /\ y.num < 0 THEN RatGt(-y.num, y.den, -x.num, x.den)
    ELSE x.num >= 0

\* k more decimal digits of r/d (0 <= r < d): <<the digits, the remainder>>
RECURSIVE DivDigits(_, _, _)
DivDigits(r, d, k) ==
    IF k = 0 THEN <<0, r>>
    ELSE LET prev == DivDigits(r, d, k - 1)
         IN <<prev[1] * 10 + (prev[2] * 10) \div d, (prev[2] * 10) % d>>

\* round(x, k): to k decimals, a tie to the even neighbour; nan and the
\* infinities are kept
FRound(x, k) ==
    IF ~IsFin(x) THEN x
    ELSE LET a == Abs(x.num)
             dd == DivDigits(a % x.den, x.den, k)
             q == (a \div x.den) * Pow10(k) + dd[1]
             up == \/ 2 * dd[2] > x.den
                   \/ (2 * dd[2] = x.den /\ q % 2 = 1)
             m == IF up THEN q + 1 ELSE q
         IN Frac(IF x.num < 0 THEN -m ELSE m, Pow10(k))

(***************************************************************************)
(* Keys and their order.  pandas orders group keys by value: library       *)
(* names alphabetically, client counts numerically.                        *)
(***************************************************************************)
Libraries == <<"libA", "libB">>          \* in alphabetical order
ClientCounts == {10, 100}

LibRank(l) == CHOOSE i \in 1..Len(Libraries) : Libraries[i] = l

SeqRange(s) == {s[i] : i \in 1..Len(s)}

\* order of the (library, client_count) group keys
KeyLess(k1, k2) ==
    \/ LibRank(k1[1]) < LibRank(k2[1])
    \/ (k1[1] = k2[1] /\ k1[2] < k2[2])

RECURSIVE SortKeys(_)
SortKeys(S) ==
    IF S = {} THEN <<>>
    ELSE LET m == CHOOSE k \in S : \A o \in S \ {k} : KeyLess(k, o)
         IN <<m>> \o SortKeys(S \ {m})

\* ascending insertion of an integer into a sorted sequence
RECURSIVE Insert(_, _)
Insert(x, s) ==
    IF s = <<>> THEN <<x>>
    ELSE IF x <= Head(s) THEN <<x>> \o s
    ELSE <<Head(s)>> \o Insert(x, Tail(s))

\* Series.unique(): the distinct values in order of first appearance
RECURSIVE Unique(_)
Unique(s) ==
    IF s = <<>> THEN <<>>
    ELSE LET u == Unique(SubSeq(s, 1, Len(s) - 1))
         IN IF s[Len(s)] \in SeqRange(u) THEN u ELSE Append(u, s[Len(s)])

RECURSIVE SortInts(_)
SortInts(s) == IF s = <<>> THEN <<>> ELSE Insert(Head(s), SortInts(Tail(s)))

(***************************************************************************)
(* Series statistics.                                                      *)
(***************************************************************************)
RECURSIVE SeqSum(_)
SeqSum(s) == IF s = <<>> THEN 0 ELSE Head(s) + SeqSum(Tail(s))

\* median of a non-empty series: the middle of the sorted values, the mean
\* of the two middle ones for an even length
SeqMedian(s) ==
    LET t == SortInts(s)
        n == Len(t)
    IN IF n % 2 = 1 THEN Flt(t[(n + 1) \div 2])
       ELSE Frac(t[n \div 2] + t[n \div 2 + 1], 2)

\* a standard deviation is kept as its square: cls "sqrt" is the root of
\* num/den
FSqrt(x) == IF IsFin(x) THEN [cls |-> "sqrt", num |-> x.num, den |-> x.den] ELSE NaN

\* population standard deviation (ddof = 0)
PopulationStd(sum, sumsq, n) ==
    IF n < 1 THEN NaN ELSE FSqrt(Frac(n * sumsq - sum * sum, n * n))

\* sample standard deviation (ddof = 1): nan for fewer than two values
SampleStd(sum, sumsq, n) ==
    IF n < 2 THEN NaN ELSE FSqrt(Frac(n * sumsq - sum * sum, n * (n - 1)))

RECURSIVE SeqSumSq(_)
SeqSumSq(s) == IF s = <<>> THEN 0 ELSE Head(s) * Head(s) + SeqSumSq(Tail(s))

calculate_basic_stats(data) ==
    IF data = <<>>
    THEN [mean |-> NaN, median |-> NaN, std |-> NaN, min |-> NaN, max |-> NaN,
          count |-> 0]
    ELSE [mean |-> Frac(SeqSum(data), Len(data)),
          median |-> SeqMedian(data),
          std |-> SampleStd(SeqSum(data), SeqSumSq(data), Len(data)),
          min |-> Flt(CHOOSE m \in SeqRange(data) : \A v \in SeqRange(data) : m <= v),
          max |-> Flt(CHOOSE m \in SeqRange(data) : \A v \in SeqRange(data) : m >= v),
          count |-> Len(data)]

(***************************************************************************)
(* df.groupby(['library', 'client_count']): the group keys in ascending    *)
(* order, and one pass over the rows that accumulates each row into the    *)
(* group of its key.                                                       *)
(***************************************************************************)
RowKey(r) == <<r.library, r.client_count>>

GroupKeys(rows) == SortKeys({RowKey(rows[i]) : i \in 1..Len(rows)})

EmptyGroup == [sum |-> 0, sumsq |-> 0, count |-> 0, min |-> 0, max |-> 0, vals |-> <<>>]

\* AddToGroup with the minimum started at 0 instead of the first value
AddToGroupMinFromZero(g, v) ==
    [sum |-> g.sum + v,
     sumsq |-> g.sumsq + v * v,
     count |-> g.count + 1,
     min |-> IF v < g.min THEN v ELSE g.min,
     max |-> IF g.count = 0 \/ v > g.max THEN v ELSE g.max,
     vals |-> Append(g.vals, v)]

AddToGroup(g, v) ==
    [sum |-> g.sum + v,
     sumsq |-> g.sumsq + v * v,
     count |-> g.count + 1,
     min |-> IF g.count = 0 \/ v < g.min THEN v ELSE g.min,
     max |-> IF g.count = 0 \/ v > g.max THEN v ELSE g.max,
     vals |-> Append(g.vals, v)]

\* the groups of column col after the rows 1..i, by group key
RECURSIVE GroupBy(_, _, _)
GroupBy(rows, col, i) ==
    IF i = 0 THEN [k \in SeqRange(GroupKeys(rows)) |-> EmptyGroup]
    ELSE LET acc == GroupBy(rows, col, i - 1)
             k == RowKey(rows[i])
         IN [acc EXCEPT ![k] = AddToGroup(acc[k], rows[i][col])]

\* grouped.agg([mean, median, std, min, max, count]).reset_index()
AggregateLatencyClass(rows, col) ==
    IF rows = <<>> THEN <<>>
    ELSE LET keys == GroupKeys(rows)
             groups == GroupBy(rows, col, Len(rows))
         IN [j \in 1..Len(keys) |->
                LET g == groups[keys[j]]
                IN [library |-> keys[j][1],
                    client_count |-> keys[j][2],
                    mean |-> Frac(g.sum, g.count),
                    median |-> SeqMedian(g.vals),
                    std |-> SampleStd(g.sum, g.sumsq, g.count),
                    min |-> Flt(g.min),
                    max |-> Flt(g.max),
                    count |-> g.count]]

aggregate_rtt_stats(rows) == AggregateLatencyClass(rows, "rtt_ms")

aggregate_connection_time_stats(rows) == AggregateLatencyClass(rows, "connection_time_ms")

aggregate_broadcast_latency_stats(rows) == AggregateLatencyClass(rows, "latency_ms")

(***************************************************************************)
(* Reliability: sums and means of the message counters per key, and the    *)
(* overall loss rate from the summed counters.  loss_rate_percent is in    *)
(* hundredths of a percent.                                                *)
(***************************************************************************)
\* total_loss_rate as a fraction instead of a percentage
total_loss_rate_fraction(messages_lost_sum, messages_sent_sum) ==
    FRound(FDiv(Flt(messages_lost_sum), Flt(messages_sent_sum)), 2)

\* (messages_lost_sum / messages_sent_sum * 100).round(2)
total_loss_rate(messages_lost_sum, messages_sent_sum) ==
    FRound(FMul(FDiv(Flt(messages_lost_sum), Flt(messages_sent_sum)), Flt(100)), 2)

aggregate_reliability_stats(rows) ==
    IF rows = <<>> THEN <<>>
    ELSE LET keys == GroupKeys(rows)
             sent == GroupBy(rows, "messages_sent", Len(rows))
             received == GroupBy(rows, "messages_received", Len(rows))
             lost == GroupBy(rows, "messages_lost", Len(rows))
             rate == GroupBy(rows, "loss_rate_percent", Len(rows))
         IN [j \in 1..Len(keys) |->
                LET k == keys[j]
                IN [library |-> k[1],
                    client_count |-> k[2],
                    messages_sent_sum |-> sent[k].sum,
                    messages_sent_mean |-> Frac(sent[k].sum, sent[k].count),
                    messages_received_sum |-> received[k].sum,
                    messages_received_mean |-> Frac(received[k].sum, received[k].count),
                    messages_lost_sum |-> lost[k].sum,
                    messages_lost_mean |-> Frac(lost[k].sum, lost[k].count),
                    loss_rate_percent_mean |-> Frac(rate[k].sum, 100 * rate[k].count),
                    loss_rate_percent_median |-> FDiv(SeqMedian(rate[k].vals), Flt(100)),
                    loss_rate_percent_max |-> Frac(rate[k].max, 100),
                    total_loss_rate |-> total_loss_rate(lost[k].sum, sent[k].sum)]]

(***************************************************************************)
(* Throughput against load: the samples with a positive message rate,      *)
(* grouped by library and by the connection count rounded to tens.         *)
(***************************************************************************)
\* rounding to the nearest multiple of ten, a tie away from zero
RoundHalfUpToTen(n) == 10 * ((n + 5) \div 10)

\* Series.round(-1): to the nearest multiple of ten, a tie to the even one
RoundToTen(n) ==
    LET q == n \div 10
        r == n % 10
    IN IF r > 5 \/ (r = 5 /\ q % 2 = 1) THEN 10 * (q + 1) ELSE 10 * q

\* A table a handler works on is [obj, rows]: obj tells the object apart
\* from the caller's table ("input"); an assignment of a column changes
\* the caller's table only if its target is that object.
Input(t) == [obj |-> "input", rows |-> t.rows]

\* a selection of rows that shares the data of the table it was taken from
SelectionView(t, rows) == [obj |-> t.obj, rows |-> rows]

\* t[mask].copy(): a new table with the selected rows
SelectionCopy(t, rows) == [obj |-> "copy", rows |-> rows]

\* the caller's table after target[col] = ...: changed when the target is
\* the caller's table
InputAfter(t, target, changed) == IF target.obj = "input" THEN changed ELSE t

\* df[df['messages_per_second'] > 0]
ActiveSamples(rows) == SelectSeq(rows, LAMBDA r : r.messages_per_second > 0)

\* df_active with the client_count column
WithClientCount(rows) ==
    [i \in 1..Len(rows) |->
        [library |-> rows[i].library,
         timestamp |-> rows[i].timestamp,
         messages_per_second |-> rows[i].messages_per_second,
         active_connections |-> rows[i].active_connections,
         client_count |-> RoundToTen(rows[i].active_connections)]]

calculate_throughput_vs_load(rows) ==
    IF rows = <<>> THEN <<>>
    ELSE LET df_active == WithClientCount(ActiveSamples(rows))
         IN IF df_active = <<>> THEN <<>>
            ELSE LET keys == GroupKeys(df_active)
                     grouped == GroupBy(df_active, "messages_per_second", Len(df_active))
                 IN [j \in 1..Len(keys) |->
                        [library |-> keys[j][1],
                         client_count |-> keys[j][2],
                         mean_throughput |-> Frac(grouped[keys[j]].sum,
                                                  grouped[keys[j]].count)]]

\* the caller's table after calculate_throughput_vs_load: client_count is
\* assigned to df_active
throughput_vs_load_input(t) ==
    IF t.rows = <<>> THEN t
    ELSE LET df_active == SelectionCopy(Input(t), ActiveSamples(t.rows))
         IN IF df_active.rows = <<>> THEN t
            ELSE InputAfter(t, df_active,
                            [t EXCEPT !.rows = WithClientCount(df_active.rows)])

(***************************************************************************)
(* Connection stability: the statistics of disconnect_count per key and    *)
(* the share of the clients of the key that lost their connection.         *)
(***************************************************************************)
\* (x > 0).sum()
CountPositive(x) == Len(SelectSeq(x, LAMBDA v : v > 0))

\* the counts of clients_with_disconnects in the order in which the keys
\* first appear in the table
clients_with_disconnects_unsorted(rows) ==
    LET keys == Unique([i \in 1..Len(rows) |-> RowKey(rows[i])])
        grouped == GroupBy(rows, "disconnect_count", Len(rows))
    IN [j \in 1..Len(keys) |-> CountPositive(grouped[keys[j]].vals)]

\* grouped['disconnect_count'].apply(lambda x: (x > 0).sum())
\*     .reset_index(drop=True): one count per group, the groups in
\* ascending key order, renumbered from the first
clients_with_disconnects(rows) ==
    LET keys == GroupKeys(rows)
        grouped == GroupBy(rows, "disconnect_count", Len(rows))
    IN [j \in 1..Len(keys) |-> CountPositive(grouped[keys[j]].vals)]

\* aggregate_stability_stats without the test for an empty table: the
\* statistics of no value at all, on one row
aggregate_stability_stats_unguarded(rows) ==
    LET keys == GroupKeys(rows)
        grouped == GroupBy(rows, "disconnect_count", Len(rows))
        positive == clients_with_disconnects(rows)
    IN IF rows = <<>>
       THEN <<[disconnect_count_sum |-> 0, disconnect_count_mean |-> NaN,
               disconnect_count_median |-> NaN, disconnect_count_max |-> NaN,
               disconnect_count_count |-> 0, clients_with_disconnects_pct |-> NaN]>>
       ELSE [j \in 1..Len(keys) |->
                LET g == grouped[keys[j]]
                IN [library |-> keys[j][1],
                    client_count |-> keys[j][2],
                    disconnect_count_sum |-> g.sum,
                    disconnect_count_mean |-> Frac(g.sum, g.count),
                    disconnect_count_median |-> SeqMedian(g.vals),
                    disconnect_count_max |-> g.max,
                    disconnect_count_count |-> g.count,
                    clients_with_disconnects_pct |->
                        FRound(FMul(FDiv(Flt(positive[j]), Flt(g.count)), Flt(100)), 2)]]

aggregate_stability_stats(rows) ==
    IF rows = <<>> THEN <<>>
    ELSE LET keys == GroupKeys(rows)
             grouped == GroupBy(rows, "disconnect_count", Len(rows))
             positive == clients_with_disconnects(rows)
         IN [j \in 1..Len(keys) |->
                LET g == grouped[keys[j]]
                IN [library |-> keys[j][1],
                    client_count |-> keys[j][2],
                    disconnect_count_sum |-> g.sum,
                    disconnect_count_mean |-> Frac(g.sum, g.count),
                    disconnect_count_median |-> SeqMedian(g.vals),
                    disconnect_count_max |-> g.max,
                    disconnect_count_count |-> g.count,
                    clients_with_disconnects_pct |->
                        FRound(FMul(FDiv(Flt(positive[j]), Flt(g.count)), Flt(100)), 2)]]

(***************************************************************************)
(* Performance degradation of the mean RTT between the lowest and the      *)
(* highest load level of each library.                                     *)
(***************************************************************************)
Column(rows, col) == [i \in 1..Len(rows) |-> rows[i][col]]

\* sort_values('client_count') of a few rows: ascending, equal keys keep
\* their order
RECURSIVE InsertRow(_, _)
InsertRow(r, s) ==
    IF s = <<>> THEN <<r>>
    ELSE IF r.client_count < Head(s).client_count THEN <<r>> \o s
    ELSE <<Head(s)>> \o InsertRow(r, Tail(s))

RECURSIVE SortByClientCount(_)
SortByClientCount(rows) ==
    IF rows = <<>> THEN <<>>
    ELSE InsertRow(rows[Len(rows)], SortByClientCount(SubSeq(rows, 1, Len(rows) - 1)))

\* rtt_df[rtt_df['library'] == library].sort_values('client_count')
LibraryRows(rtt_df, library) ==
    SortByClientCount(SelectSeq(rtt_df, LAMBDA r : r.library = library))

\* HasEnoughLevels that lets a library with a single row through
HasAnyLevel(lib_df) == ~(Len(lib_df) < 1)

\* too few rows for a library: the loop continues with the next library
HasEnoughLevels(lib_df) == ~(Len(lib_df) < 2)

\* lib_df[lib_df['client_count'] == count]['mean'].iloc[0]
MeanAt(lib_df, count) == SelectSeq(lib_df, LAMBDA r : r.client_count = count)[1].mean

MinClientCount(lib_df) ==
    CHOOSE c \in SeqRange(Column(lib_df, "client_count")) :
        \A r \in SeqRange(lib_df) : c <= r.client_count

MaxClientCount(lib_df) ==
    CHOOSE c \in SeqRange(Column(lib_df, "client_count")) :
        \A r \in SeqRange(lib_df) : c >= r.client_count

\* degradation_pct relative to the peak instead of the baseline
degradation_pct_of_peak(baseline_rtt, peak_rtt) ==
    IF FGt(baseline_rtt, Flt(0))
    THEN FMul(FDiv(FSub(peak_rtt, baseline_rtt), peak_rtt), Flt(100))
    ELSE Flt(0)

\* ((peak_rtt - baseline_rtt) / baseline_rtt * 100) if baseline_rtt > 0 else 0
degradation_pct(baseline_rtt, peak_rtt) ==
    IF FGt(baseline_rtt, Flt(0))
    THEN FMul(FDiv(FSub(peak_rtt, baseline_rtt), baseline_rtt), Flt(100))
    ELSE Flt(0)

\* degradation_per_100_clients per client instead of per 100 clients
degradation_per_client(pct, baseline_count, peak_count) ==
    IF peak_count > baseline_count
    THEN FDiv(pct, Flt(peak_count - baseline_count))
    ELSE Flt(0)

\* degradation_pct / ((peak_count - baseline_count) / 100)
\*     if peak_count > baseline_count else 0
degradation_per_100_clients(pct, baseline_count, peak_count) ==
    IF peak_count > baseline_count
    THEN FDiv(pct, Frac(peak_count - baseline_count, 100))
    ELSE Flt(0)

DegradationRow(library, lib_df) ==
    LET baseline_count == MinClientCount(lib_df)
        baseline_rtt == MeanAt(lib_df, baseline_count)
        peak_count == MaxClientCount(lib_df)
        peak_rtt == MeanAt(lib_df, peak_count)
        pct == degradation_pct(baseline_rtt, peak_rtt)
    IN [library |-> library,
        baseline_clients |-> baseline_count,
        baseline_rtt_ms |-> FRound(baseline_rtt, 2),
        peak_clients |-> peak_count,
        peak_rtt_ms |-> FRound(peak_rtt, 2),
        total_degradation_pct |-> FRound(pct, 2),
        degradation_per_100_clients_pct |->
            FRound(degradation_per_100_clients(pct, baseline_count, peak_count), 2)]

\* the rows of the libraries libs[1..i], in that order
RECURSIVE DegradationRows(_, _, _)
DegradationRows(rtt_df, libs, i) ==
    IF i = 0 THEN <<>>
    ELSE LET lib_df == LibraryRows(rtt_df, libs[i])
             before == DegradationRows(rtt_df, libs, i - 1)
         IN IF HasEnoughLevels(lib_df)
            THEN Append(before, DegradationRow(libs[i], lib_df))
            ELSE before

calculate_performance_degradation(rtt_df) ==
    IF rtt_df = <<>> THEN <<>>
    ELSE LET libs == Unique(Column(rtt_df, "library"))
         IN DegradationRows(rtt_df, libs, Len(libs))

(***************************************************************************)
(* Memory-leak detection: a least-squares line through each memory metric  *)
(* of a server over the elapsed time.  A resource table has the columns    *)
(* of the servers' files it was concatenated from; a value a server did    *)
(* not report is nan.  Timestamps are whole seconds, NaT is a missing one; *)
(* the valid timestamps of a server are distinct.  Memory values are in MB *)
(* with three decimals.                                                    *)
(***************************************************************************)
NaT == -1

MinSamples == 10

\* the memory metrics in the order the code looks for them, with the label
\* of the result row
MemoryColumns ==
    <<[col |-> "memory_alloc_mb", name |-> "Memory Alloc (MB)"],
      [col |-> "memory_sys_mb", name |-> "Memory Sys (MB)"],
      [col |-> "memory_rss_mb", name |-> "Memory RSS (MB)"],
      [col |-> "memory_heap_used_mb", name |-> "Memory Heap Used (MB)"]>>

\* ascending by timestamp
RECURSIVE InsertSample(_, _)
InsertSample(r, s) ==
    IF s = <<>> THEN <<r>>
    ELSE IF r.timestamp < Head(s).timestamp THEN <<r>> \o s
    ELSE <<Head(s)>> \o InsertSample(r, Tail(s))

\* the rows in the order of the table
Unsorted(rows) == rows

\* sort_values('timestamp')
RECURSIVE SortByTimestamp(_)
SortByTimestamp(rows) ==
    IF rows = <<>> THEN <<>>
    ELSE InsertSample(rows[Len(rows)], SortByTimestamp(SubSeq(rows, 1, Len(rows) - 1)))

\* the rows of a server with a valid timestamp, in chronological order:
\* to_datetime(errors='coerce'), dropna(subset=['timestamp']),
\* sort_values('timestamp'), reset_index
ValidSamples(resource_df, server) ==
    SortByTimestamp(SelectSeq(resource_df.rows,
                              LAMBDA r : r.server = server /\ r.timestamp # NaT))

\* HasEnoughSamples that asks for more than MinSamples samples
HasMoreThanMinSamples(server_df) == ~(Len(server_df) <= MinSamples)

\* too few samples: the loop continues with the next server
HasEnoughSamples(server_df) == ~(Len(server_df) < MinSamples)

\* seconds since the first sample
time_index(server_df) ==
    LET min_time == CHOOSE t \in SeqRange(Column(server_df, "timestamp")) :
                        \A r \in SeqRange(server_df) : t <= r.timestamp
    IN [i \in 1..Len(server_df) |-> server_df[i].timestamp - min_time]

\* the memory metrics that are columns of the table
memory_cols(resource_df) == SelectSeq(MemoryColumns, LAMBDA m : m.col \in resource_df.columns)

RECURSIVE SeqGCD(_)
SeqGCD(s) == IF s = <<>> THEN 0 ELSE GCD(Head(s), SeqGCD(Tail(s)))

RECURSIVE SeqDot(_, _)
SeqDot(s, t) == IF s = <<>> THEN 0 ELSE Head(s) * Head(t) + SeqDot(Tail(s), Tail(t))

\* squared critical values of Student's t for a two-sided level of 0.05, in
\* millionths, by degrees of freedom
TCrit2 ==
    [dof \in 7..20 |->
        CASE dof = 7 -> 5591448 [] dof = 8 -> 5317655 [] dof = 9 -> 5117355
          [] dof = 10 -> 4964603 [] dof = 11 -> 4844336 [] dof = 12 -> 4747225
          [] dof = 13 -> 4667193 [] dof = 14 -> 4600110 [] dof = 15 -> 4543077
          [] dof = 16 -> 4493998 [] dof = 17 -> 4451322 [] dof = 18 -> 4413873
          [] dof = 19 -> 4380750 [] OTHER -> 4351244]

\* a p-value is kept as the statistic it is the two-sided tail probability
\* of: cls "tail" with the squared t statistic t2 and the degrees of freedom
PNaN == [cls |-> "nan", t2 |-> NaN, dof |-> 0]

\* p < 0.05
PBelow05(p) ==
    /\ p.cls = "tail"
    /\ \/ p.t2.cls = "inf"
       \/ RatGt(p.t2.num, p.t2.den, TCrit2[p.dof], 1000000)

\* x * x / (a * b) in lowest terms, for a, b > 0
SquareOver(x, a, b) ==
    LET f1 == Frac(x, a)
        f2 == Frac(x, b)
        g1 == GCD(f1.num, f2.den)
        g2 == GCD(f2.num, f1.den)
    IN Frac((f1.num \div g1) * (f2.num \div g2), (f1.den \div g2) * (f2.den \div g1))

\* scipy.stats.linregress(x, y) for distinct x: the slope, the squared
\* correlation coefficient and the p-value of the slope.  The sums are
\* formed over x and y - y[1] divided by their common divisors, which
\* leaves the correlation unchanged and scales the slope.
linregress(x, y) ==
    IF \E i \in 1..Len(y) : IsNaN(y[i])
    THEN [slope |-> NaN, r_squared |-> NaN, p_value |-> PNaN]
    ELSE LET n == Len(x)
             milli == [i \in 1..n |-> y[i].num * (1000 \div y[i].den)]
             dy == [i \in 1..n |-> milli[i] - milli[1]]
             gx == SeqGCD(x)
             gy == SeqGCD(dy)
             xs == [i \in 1..n |-> x[i] \div gx]
             ys == [i \in 1..n |-> IF gy = 0 THEN 0 ELSE dy[i] \div gy]
             ssxm == n * SeqDot(xs, xs) - SeqSum(xs) * SeqSum(xs)
             ssym == n * SeqDot(ys, ys) - SeqSum(ys) * SeqSum(ys)
             ssxym == n * SeqDot(xs, ys) - SeqSum(xs) * SeqSum(ys)
             r2 == IF ssym = 0 THEN Flt(0) ELSE SquareOver(ssxym, ssxm, ssym)
             t2 == IF r2.num = r2.den THEN PosInf
                   ELSE Frac(r2.num * (n - 2), r2.den - r2.num)
         IN [slope |-> FMul(Frac(gy, 1000 * gx), Frac(ssxym, ssxm)),
             r_squared |-> r2,
             p_value |-> [cls |-> "tail", t2 |-> t2, dof |-> n - 2]]

\* growth_rate_per_hour scaled per minute
growth_rate_per_minute(slope) == FMul(slope, Flt(60))

\* slope * 3600
growth_rate_per_hour(slope) == FMul(slope, Flt(3600))

\* is_leak_likely without the test of the fit
is_leak_likely_any_fit(slope, r_squared, p_value) ==
    /\ FGt(slope, Frac(1, 100))
    /\ PBelow05(p_value)

\* is_leak_likely as the negation of the three opposite comparisons
is_leak_likely_unless_refuted(slope, r_squared, p_value) ==
    /\ ~(FGt(Frac(1, 100), slope) \/ slope = Frac(1, 100))
    /\ ~(FGt(Frac(7, 10), r_squared) \/ r_squared = Frac(7, 10))
    /\ (p_value.cls = "nan" \/ PBelow05(p_value))

\* slope > 0.01 and r_value ** 2 > 0.7 and p_value < 0.05
is_leak_likely(slope, r_squared, p_value) ==
    /\ FGt(slope, Frac(1, 100))
    /\ FGt(r_squared, Frac(7, 10))
    /\ PBelow05(p_value)

\* total_growth as an absolute difference
total_growth_abs(first, last) ==
    IF FGt(first, last) THEN FSub(first, last) ELSE FSub(last, first)

\* server_df[mem_col].iloc[-1] - server_df[mem_col].iloc[0]
total_growth(first, last) == FSub(last, first)

\* the result row of one memory metric of a server; p_value is not rounded
LeakRow(server, server_df, m) ==
    LET values == Column(server_df, m.col)
        reg == linregress(time_index(server_df), values)
    IN [server |-> server,
        metric |-> m.name,
        growth_rate_mb_per_hour |-> FRound(growth_rate_per_hour(reg.slope), 4),
        r_squared |-> FRound(reg.r_squared, 4),
        p_value |-> reg.p_value,
        leak_detected |-> is_leak_likely(reg.slope, reg.r_squared, reg.p_value),
        start_memory_mb |-> FRound(values[1], 2),
        end_memory_mb |-> FRound(values[Len(values)], 2),
        total_growth_mb |-> FRound(total_growth(values[1], values[Len(values)]), 2)]

\* the result rows of the servers servers[1..i], in that order
RECURSIVE LeakRows(_, _, _)
LeakRows(resource_df, servers, i) ==
    IF i = 0 THEN <<>>
    ELSE LET server_df == ValidSamples(resource_df, servers[i])
             cols == memory_cols(resource_df)
             before == LeakRows(resource_df, servers, i - 1)
         IN IF HasEnoughSamples(server_df)
            THEN before \o [j \in 1..Len(cols) |-> LeakRow(servers[i], server_df, cols[j])]
            ELSE before

detect_memory_leaks(resource_df) ==
    IF resource_df.rows = <<>> THEN <<>>
    ELSE LET servers == Unique(Column(resource_df.rows, "server"))
         IN LeakRows(resource_df, servers, Len(servers))

\* the caller's table after detect_memory_leaks: timestamp is assigned to
\* the server_df of each server (the timestamps of a loaded table are
\* datetimes already, converting them again leaves them as they are), and
\* time_index to the table that dropna, sort_values and reset_index made
\* of it
leaks_input(t) ==
    IF t.rows = <<>> THEN t
    ELSE LET server == t.rows[1].server
             server_df == SelectionCopy(Input(t),
                                        SelectSeq(t.rows, LAMBDA r : r.server = server))
             sorted == [obj |-> "sorted", rows |-> ValidSamples(t, server)]
             converted == InputAfter(t, server_df, t)
         IN InputAfter(converted, sorted,
                       [converted EXCEPT !.columns = @ \cup {"time_index"}])

(***************************************************************************)
(* Resource statistics per server.  A resource table is [columns, rows]:   *)
(* after pd.concat every row has every column of the table, null (nan)     *)
(* where the server's own file lacked the column.  A summary (dict) is a   *)
(* function from its keys; pd.DataFrame(summaries) gives every row every   *)
(* key that some summary has, null where the row's summary lacks it.       *)
(***************************************************************************)
\* x + y of numpy floats
FAdd(x, y) ==
    IF IsNaN(x) \/ IsNaN(y) THEN NaN
    ELSE IF ~IsFin(x) THEN (IF ~IsFin(y) /\ y.cls # x.cls THEN NaN ELSE x)
    ELSE IF ~IsFin(y) THEN y
    ELSE Frac(x.num * y.den + y.num * x.den, x.den * y.den)

\* Series.dropna()
NotNull(vals) == SelectSeq(vals, LAMBDA v : ~IsNaN(v))

RECURSIVE FSum(_)
FSum(vals) == IF vals = <<>> THEN Flt(0) ELSE FAdd(Head(vals), FSum(Tail(vals)))

\* Series.mean() with nulls counted as zeros
ColMeanNullAsZero(vals) ==
    IF vals = <<>> THEN NaN
    ELSE FDiv(FSum(NotNull(vals)), Flt(Len(vals)))

\* Series.mean(): the mean of the values that are not null, nan when
\* there is none
ColMean(vals) ==
    LET v == NotNull(vals)
    IN IF v = <<>> THEN NaN ELSE FDiv(FSum(v), Flt(Len(v)))

\* Series.max() and Series.min(), nulls skipped
ColMax(vals) ==
    LET v == NotNull(vals)
    IN IF v = <<>> THEN NaN
       ELSE v[CHOOSE i \in 1..Len(v) : \A j \in 1..Len(v) : ~FGt(v[j], v[i])]

ColMin(vals) ==
    LET v == NotNull(vals)
    IN IF v = <<>> THEN NaN
       ELSE v[CHOOSE i \in 1..Len(v) : \A j \in 1..Len(v) : ~FGt(v[i], v[j])]

\* df[df['server'] == server]
ServerRows(rows, server) == SelectSeq(rows, LAMBDA r : r.server = server)

GoroutineInputs == {"cpu_goroutines", "memory_alloc_mb", "memory_sys_mb", "gc_count"}

EventLoopInputs == {"cpu_user_ms", "cpu_system_ms", "memory_rss_mb", "memory_heap_used_mb"}

\* the branch of a server of the goroutine kind
GoroutineSummary(server_df) ==
    [f \in {"cpu_goroutines_mean", "cpu_goroutines_max", "memory_alloc_mb_mean",
            "memory_alloc_mb_max", "memory_sys_mb_mean", "memory_sys_mb_max",
            "gc_count_total"} |->
        CASE f = "cpu_goroutines_mean" -> ColMean(Column(server_df, "cpu_goroutines"))
          [] f = "cpu_goroutines_max" -> ColMax(Column(server_df, "cpu_goroutines"))
          [] f = "memory_alloc_mb_mean" -> ColMean(Column(server_df, "memory_alloc_mb"))
          [] f = "memory_alloc_mb_max" -> ColMax(Column(server_df, "memory_alloc_mb"))
          [] f = "memory_sys_mb_mean" -> ColMean(Column(server_df, "memory_sys_mb"))
          [] f = "memory_sys_mb_max" -> ColMax(Column(server_df, "memory_sys_mb"))
          [] OTHER -> FSub(ColMax(Column(server_df, "gc_count")),
                           ColMin(Column(server_df, "gc_count")))]

\* the branch of a server of the event-loop kind
EventLoopSummary(server_df, columns) ==
    [f \in {"cpu_user_ms_mean", "cpu_user_ms_max", "cpu_system_ms_mean",
            "cpu_system_ms_max", "memory_rss_mb_mean", "memory_rss_mb_max",
            "memory_heap_used_mb_mean", "memory_heap_used_mb_max"}
           \cup (IF "cpu_percent" \in columns
                 THEN {"cpu_percent_mean", "cpu_percent_max"} ELSE {}) |->
        CASE f = "cpu_user_ms_mean" -> ColMean(Column(server_df, "cpu_user_ms"))
          [] f = "cpu_user_ms_max" -> ColMax(Column(server_df, "cpu_user_ms"))
          [] f = "cpu_system_ms_mean" -> ColMean(Column(server_df, "cpu_system_ms"))
          [] f = "cpu_system_ms_max" -> ColMax(Column(server_df, "cpu_system_ms"))
          [] f = "cpu_percent_mean" -> ColMean(Column(server_df, "cpu_percent"))
          [] f = "cpu_percent_max" -> ColMax(Column(server_df, "cpu_percent"))
          [] f = "memory_rss_mb_mean" -> ColMean(Column(server_df, "memory_rss_mb"))
          [] f = "memory_rss_mb_max" -> ColMax(Column(server_df, "memory_rss_mb"))
          [] f = "memory_heap_used_mb_mean" ->
                 ColMean(Column(server_df, "memory_heap_used_mb"))
          [] OTHER -> ColMax(Column(server_df, "memory_heap_used_mb"))]

\* the summary of one server: the branches are chosen by the columns of
\* the table
ServerSummary(df, server) ==
    LET server_df == ServerRows(df.rows, server)
    IN ("server" :> server)
       @@ (IF "cpu_goroutines" \in df.columns
           THEN GoroutineSummary(server_df) ELSE <<>>)
       @@ (IF "cpu_user_ms" \in df.columns
           THEN EventLoopSummary(server_df, df.columns) ELSE <<>>)

\* pd.DataFrame(summaries)
DataFrameOf(summaries) ==
    LET cols == UNION {DOMAIN summaries[j] : j \in 1..Len(summaries)}
    IN [j \in 1..Len(summaries) |->
           [c \in cols |-> IF c \in DOMAIN summaries[j] THEN summaries[j][c] ELSE NaN]]

\* the exception of aggregate_resource_stats: a branch reads a column the
\* table lacks
ResourceStatsError(df) ==
    IF df.rows = <<>> THEN "none"
    ELSE IF \/ ("cpu_goroutines" \in df.columns /\ ~(GoroutineInputs \subseteq df.columns))
            \/ ("cpu_user_ms" \in df.columns /\ ~(EventLoopInputs \subseteq df.columns))
         THEN "KeyError"
    ELSE "none"

aggregate_resource_stats(df) ==
    IF df.rows = <<>> \/ ResourceStatsError(df) # "none" THEN <<>>
    ELSE LET servers == Unique(Column(df.rows, "server"))
         IN DataFrameOf([j \in 1..Len(servers) |-> ServerSummary(df, servers[j])])

(***************************************************************************)
(* Resource metrics per server and load phase: the samples with            *)
(* connections, bucketed by the connection count rounded to tens.          *)
(***************************************************************************)
\* every sample, idle or not
AllSamples(rows) == rows

\* df[df['active_connections'] > 0]
ActiveRows(rows) == SelectSeq(rows, LAMBDA r : r.active_connections > 0)

\* the group keys of groupby('client_count'), ascending
PhaseLevels(server_df) ==
    SortInts(Unique([i \in 1..Len(server_df) |->
                        RoundToTen(server_df[i].active_connections)]))

\* the samples at or below a level
PhaseRowsUpTo(server_df, level) ==
    SelectSeq(server_df, LAMBDA r : RoundToTen(r.active_connections) <= level)

\* the group of a key of groupby('client_count')
PhaseRows(server_df, level) ==
    SelectSeq(server_df, LAMBDA r : RoundToTen(r.active_connections) = level)

\* the caller's table after aggregate_cpu_by_phase or
\* aggregate_memory_by_phase: client_count is assigned to the server_df of
\* each server
phase_input(t) ==
    IF t.rows = <<>> \/ "active_connections" \notin t.columns THEN t
    ELSE LET df_active == SelectionCopy(Input(t), ActiveRows(t.rows))
         IN IF df_active.rows = <<>> THEN t
            ELSE LET server_df ==
                         SelectionCopy(df_active,
                                       ServerRows(df_active.rows, df_active.rows[1].server))
                 IN InputAfter(t, server_df,
                               [t EXCEPT !.columns = @ \cup {"client_count"}])

\* 'col' in server_df.columns and server_df['col'].notna().any()
HasData(df, server_df, col) ==
    col \in df.columns /\ NotNull(Column(server_df, col)) # <<>>

\* the rows of one server in aggregate_cpu_by_phase
CpuPhaseRows(df, server, server_df) ==
    LET levels == PhaseLevels(server_df)
    IN [j \in 1..Len(levels) |->
           LET g == PhaseRows(server_df, levels[j])
           IN IF HasData(df, server_df, "cpu_goroutines")
              THEN [server |-> server,
                    client_count |-> levels[j],
                    cpu_percent_mean |-> FRound(ColMean(Column(g, "cpu_percent")), 2),
                    cpu_goroutines_mean |->
                        FRound(ColMean(Column(g, "cpu_goroutines")), 2)]
              ELSE [server |-> server,
                    client_count |-> levels[j],
                    cpu_percent_mean |-> FRound(ColMean(Column(g, "cpu_percent")), 2)]]

RECURSIVE CpuPhaseResults(_, _, _, _)
CpuPhaseResults(df, df_active, servers, i) ==
    IF i = 0 THEN <<>>
    ELSE CpuPhaseResults(df, df_active, servers, i - 1)
         \o CpuPhaseRows(df, servers[i], ServerRows(df_active, servers[i]))

\* the exception of aggregate_cpu_by_phase: both branches aggregate
\* cpu_percent
CpuPhaseError(df) ==
    IF df.rows = <<>> \/ "active_connections" \notin df.columns THEN "none"
    ELSE IF ActiveRows(df.rows) # <<>> /\ "cpu_percent" \notin df.columns THEN "KeyError"
    ELSE "none"

aggregate_cpu_by_phase(df) ==
    IF df.rows = <<>> \/ "active_connections" \notin df.columns THEN <<>>
    ELSE LET df_active == ActiveRows(df.rows)
             servers == Unique(Column(df_active, "server"))
         IN IF df_active = <<>> \/ CpuPhaseError(df) # "none" THEN <<>>
            ELSE DataFrameOf(CpuPhaseResults(df, df_active, servers, Len(servers)))

\* int(x) of a finite float
Trunc(x) == Flt(IF x.num >= 0 THEN x.num \div x.den ELSE -((-x.num) \div x.den))

\* round(row[col], 2) if the column was aggregated, else None
OptionalMean(df, g, col) ==
    IF col \in df.columns THEN FRound(ColMean(Column(g, col)), 2) ELSE NaN

\* a field of the other runtime reported as 0
InapplicableAsZero == Flt(0)

\* None: the value of a field that does not apply to the server's runtime
Inapplicable == NaN

\* the rows of one server in aggregate_memory_by_phase
MemoryPhaseRows(df, server, server_df, goroutine) ==
    LET levels == PhaseLevels(server_df)
    IN [j \in 1..Len(levels) |->
           LET g == PhaseRows(server_df, levels[j])
               gc == ColMax(Column(g, "gc_count"))
           IN IF goroutine
              THEN [server |-> server,
                    client_count |-> levels[j],
                    memory_alloc_mb_mean |->
                        FRound(ColMean(Column(g, "memory_alloc_mb")), 2),
                    memory_sys_mb_mean |-> FRound(ColMean(Column(g, "memory_sys_mb")), 2),
                    memory_rss_mb_mean |-> Inapplicable,
                    memory_heap_used_mb_mean |-> Inapplicable,
                    memory_heap_total_mb_mean |-> Inapplicable,
                    memory_external_mb_mean |-> Inapplicable,
                    gc_count |-> IF IsNaN(gc) THEN NaN ELSE Trunc(gc)]
              ELSE [server |-> server,
                    client_count |-> levels[j],
                    memory_alloc_mb_mean |-> Inapplicable,
                    memory_sys_mb_mean |-> Inapplicable,
                    gc_count |-> Inapplicable,
                    memory_rss_mb_mean |-> FRound(ColMean(Column(g, "memory_rss_mb")), 2),
                    memory_heap_used_mb_mean |->
                        FRound(ColMean(Column(g, "memory_heap_used_mb")), 2),
                    memory_heap_total_mb_mean |->
                        OptionalMean(df, g, "memory_heap_total_mb"),
                    memory_external_mb_mean |->
                        OptionalMean(df, g, "memory_external_mb")]]

\* go_results (goroutine TRUE) or node_results (goroutine FALSE) after the
\* servers 1..i
RECURSIVE MemoryPhaseResults(_, _, _, _, _)
MemoryPhaseResults(df, df_active, servers, i, goroutine) ==
    IF i = 0 THEN <<>>
    ELSE LET server_df == ServerRows(df_active, servers[i])
             is_go_server == HasData(df, server_df, "memory_alloc_mb")
             is_node_server == HasData(df, server_df, "memory_rss_mb")
             taken == IF goroutine THEN is_go_server
                      ELSE ~is_go_server /\ is_node_server
         IN MemoryPhaseResults(df, df_active, servers, i - 1, goroutine)
            \o (IF taken THEN MemoryPhaseRows(df, servers[i], server_df, goroutine)
                ELSE <<>>)

\* the exception of aggregate_memory_by_phase: a branch aggregates a
\* column the table lacks
MemoryPhaseError(df) ==
    IF df.rows = <<>> \/ "active_connections" \notin df.columns THEN "none"
    ELSE LET df_active == ActiveRows(df.rows)
             servers == SeqRange(Column(df_active, "server"))
         IN IF \E s \in servers :
                  LET server_df == ServerRows(df_active, s)
                  IN \/ /\ HasData(df, server_df, "memory_alloc_mb")
                        /\ ~({"memory_sys_mb", "gc_count"} \subseteq df.columns)
                     \/ /\ ~HasData(df, server_df, "memory_alloc_mb")
                        /\ HasData(df, server_df, "memory_rss_mb")
                        /\ "memory_heap_used_mb" \notin df.columns
            THEN "KeyError" ELSE "none"

aggregate_memory_by_phase(df) ==
    IF df.rows = <<>> \/ "active_connections" \notin df.columns THEN <<>>
    ELSE LET df_active == ActiveRows(df.rows)
             servers == Unique(Column(df_active, "server"))
         IN IF df_active = <<>> \/ MemoryPhaseError(df) # "none" THEN <<>>
            ELSE MemoryPhaseResults(df, df_active, servers, Len(servers), TRUE)
                 \o MemoryPhaseResults(df, df_active, servers, Len(servers), FALSE)

(***************************************************************************)
(* The summary table: one row per library with the rollups of the six      *)
(* aggregate tables.  An argument is [given, rows]; given is FALSE for an  *)
(* argument that is None.                                                  *)
(***************************************************************************)
\* ascending insertion of a float into a sorted sequence of floats
RECURSIVE InsertFloat(_, _)
InsertFloat(x, s) ==
    IF s = <<>> THEN <<x>>
    ELSE IF ~FGt(x, Head(s)) THEN <<x>> \o s
    ELSE <<Head(s)>> \o InsertFloat(x, Tail(s))

RECURSIVE SortFloats(_)
SortFloats(s) == IF s = <<>> THEN <<>> ELSE InsertFloat(Head(s), SortFloats(Tail(s)))

\* Series.median(): of the values that are not null
ColMedian(vals) ==
    LET t == SortFloats(NotNull(vals))
        n == Len(t)
    IN IF n = 0 THEN NaN
       ELSE IF n % 2 = 1 THEN t[(n + 1) \div 2]
       ELSE FDiv(FAdd(t[n \div 2], t[n \div 2 + 1]), Flt(2))

\* Series.sum() of an integer column
ColSum(vals) == Flt(SeqSum(vals))

\* sorted(libraries)
RECURSIVE SortLibraries(_)
SortLibraries(S) ==
    IF S = {} THEN <<>>
    ELSE LET m == CHOOSE l \in S : \A o \in S : LibRank(l) <= LibRank(o)
         IN <<m>> \o SortLibraries(S \ {m})

SummaryArguments ==
    <<"rtt_df", "conn_df", "broadcast_df", "throughput_df", "reliability_df",
      "stability_df">>

\* the libraries of the four required tables only
SummaryLibrariesRequiredOnly(args) ==
    UNION {IF args[a].given /\ args[a].rows # <<>>
           THEN SeqRange(Column(args[a].rows, "library")) ELSE {} :
              a \in {"rtt_df", "conn_df", "broadcast_df", "throughput_df"}}

\* the libraries: of every argument that is not None and not empty
SummaryLibraries(args) ==
    UNION {IF args[a].given /\ args[a].rows # <<>>
           THEN SeqRange(Column(args[a].rows, "library")) ELSE {} :
              a \in SeqRange(SummaryArguments)}

\* df[df['library'] == library]
SelectLibrary(rows, library) == SelectSeq(rows, LAMBDA r : r.library = library)

\* the keys of a latency-class table in the summary of a library
LatencySummary(arg, library, mean_key, median_key) ==
    LET lib_df == SelectLibrary(arg.rows, library)
    IN IF arg.rows = <<>> \/ lib_df = <<>> THEN <<>>
       ELSE (mean_key :> ColMean(Column(lib_df, "mean")))
            @@ (median_key :> ColMedian(Column(lib_df, "median")))

\* the rollups with the last row of the library instead of the first
ThroughputSummaryLast(arg, library) ==
    LET lib_throughput == SelectLibrary(arg.rows, library)
    IN IF arg.rows = <<>> \/ lib_throughput = <<>> THEN <<>>
       ELSE ("throughput_mean_msg_s" :> lib_throughput[Len(lib_throughput)].mean)
            @@ ("throughput_max_msg_s" :> lib_throughput[Len(lib_throughput)].max)

ThroughputSummary(arg, library) ==
    LET lib_throughput == SelectLibrary(arg.rows, library)
    IN IF arg.rows = <<>> \/ lib_throughput = <<>> THEN <<>>
       ELSE ("throughput_mean_msg_s" :> lib_throughput[1].mean)
            @@ ("throughput_max_msg_s" :> lib_throughput[1].max)

\* the reliability keys filled with zeros for a library without rows
ReliabilitySummaryZeroFilled(arg, library) ==
    LET lib_reliability == SelectLibrary(arg.rows, library)
    IN IF ~arg.given THEN <<>>
       ELSE IF arg.rows = <<>> \/ lib_reliability = <<>>
            THEN ("message_loss_rate_pct" :> Flt(0)) @@ ("messages_lost_total" :> Flt(0))
       ELSE ("message_loss_rate_pct" :> ColMean(Column(lib_reliability, "total_loss_rate")))
            @@ ("messages_lost_total" :>
                    ColSum(Column(lib_reliability, "messages_lost_sum")))

ReliabilitySummary(arg, library) ==
    LET lib_reliability == SelectLibrary(arg.rows, library)
    IN IF ~arg.given \/ arg.rows = <<>> \/ lib_reliability = <<>> THEN <<>>
       ELSE ("message_loss_rate_pct" :> ColMean(Column(lib_reliability, "total_loss_rate")))
            @@ ("messages_lost_total" :>
                    ColSum(Column(lib_reliability, "messages_lost_sum")))

StabilitySummary(arg, library) ==
    LET lib_stability == SelectLibrary(arg.rows, library)
    IN IF ~arg.given \/ arg.rows = <<>> \/ lib_stability = <<>> THEN <<>>
       ELSE ("disconnect_count_total" :>
                    ColSum(Column(lib_stability, "disconnect_count_sum")))
            @@ ("clients_with_disconnects_pct" :>
                    ColMean(Column(lib_stability, "clients_with_disconnects_pct")))

\* the summary (dict) of one library
LibrarySummary(args, library) ==
    ("library" :> library)
    @@ LatencySummary(args.rtt_df, library, "rtt_mean_ms", "rtt_median_ms")
    @@ LatencySummary(args.conn_df, library, "conn_mean_ms", "conn_median_ms")
    @@ LatencySummary(args.broadcast_df, library, "broadcast_mean_ms",
                      "broadcast_median_ms")
    @@ ThroughputSummary(args.throughput_df, library)
    @@ ReliabilitySummary(args.reliability_df, library)
    @@ StabilitySummary(args.stability_df, library)

\* the exception of create_summary_table: the loop reads .empty of the
\* four required tables
SummaryError(args) ==
    IF /\ SummaryLibraries(args) # {}
       /\ \E a \in {"rtt_df", "conn_df", "broadcast_df", "throughput_df"} : ~args[a].given
    THEN "AttributeError" ELSE "none"

create_summary_table(args) ==
    LET libraries == SortLibraries(SummaryLibraries(args))
    IN IF libraries = <<>> \/ SummaryError(args) # "none" THEN <<>>
       ELSE DataFrameOf([j \in 1..Len(libraries) |-> LibrarySummary(args, libraries[j])])

(***************************************************************************)
(* Input tables.                                                           *)
(***************************************************************************)
\* observation rows of a latency-class metric, the value (in ms) in column
\* col
ObservationRows(col, values) ==
    {[f \in {"library", "client_count", col} |->
         CASE f = "library" -> l [] f = "client_count" -> c [] OTHER -> v] :
        l \in SeqRange(Libraries), c \in ClientCounts, v \in values}

\* the loss rate the load generator logs for a client, in hundredths of a
\* percent
ClientLossRate(sent, lost) ==
    IF sent = 0 THEN 0 ELSE FRound(Frac(100 * lost, sent), 2).num * (100 \div FRound(Frac(100 * lost, sent), 2).den)

\* <<messages_sent, messages_lost>> of a client
MessageCounts == {<<0, 0>>, <<0, 1>>, <<1, 0>>, <<1, 1>>, <<2, 0>>, <<2, 1>>}

ReliabilityRows ==
    {[library |-> l, client_count |-> c, messages_sent |-> m[1],
      messages_received |-> IF m[1] > m[2] THEN m[1] - m[2] ELSE 0,
      messages_lost |-> m[2],
      loss_rate_percent |-> ClientLossRate(m[1], m[2])] :
        l \in SeqRange(Libraries), c \in ClientCounts, m \in MessageCounts}

\* mean RTT values (ms) of the rows of an RTT aggregate table
MeanValues == {0, 50, 150}

RttStatsRows ==
    {[library |-> l, client_count |-> c, mean |-> Flt(m)] :
        l \in SeqRange(Libraries), c \in ClientCounts, m \in MeanValues}

(***************************************************************************)
(* Resource tables: the samples of one server or of two servers of         *)
(* different runtimes.  A goroutine-style server reports memory_alloc_mb   *)
(* and memory_sys_mb, an event-loop-style server memory_rss_mb and         *)
(* memory_heap_used_mb.                                                    *)
(***************************************************************************)
Servers == <<"golang-gorilla", "ws">>

ServerColumns ==
    [s \in SeqRange(Servers) |->
        IF s = "golang-gorilla" THEN <<"memory_alloc_mb", "memory_sys_mb">>
        ELSE <<"memory_rss_mb", "memory_heap_used_mb">>]

\* growth per sample (thousandths of a MB) and sampling period (seconds)
Rates == {[unit |-> 6, step |-> 1], [unit |-> 12, step |-> 1], [unit |-> 1000, step |-> 60]}

Scatter == <<0, 1, -1, 0, 1, 1, -1, 0, -1, 1, 0, -1, 1, 0>>

\* amplitudes of the scatter of a series
ScatterLevels == {0, 1, 3}

\* the first metric of sample i (from 0) in thousandths of a MB: a line of
\* slope k with scatter of amplitude w
SeriesValue(rate, k, w, i) == 50234 + rate.unit * (k * i + w * Scatter[(i % Len(Scatter)) + 1])

\* the columns of the resource file of each server, besides timestamp
ServerSchema ==
    [s \in SeqRange(Servers) |->
        IF s = "golang-gorilla"
        THEN {"active_connections", "cpu_percent", "cpu_goroutines", "gc_count",
              "memory_alloc_mb", "memory_sys_mb"}
        ELSE {"active_connections", "cpu_percent", "cpu_user_ms", "cpu_system_ms",
              "memory_rss_mb", "memory_heap_used_mb", "memory_heap_total_mb",
              "memory_external_mb"}]

\* a sample of a server as a row of the concatenated table: the columns of
\* the other runtime are null; cpu is the load level of the processor,
\* first and second the two memory metrics of the server's runtime
ResourceSample(server, ts, active, cpu, first, second) ==
    LET go == server = "golang-gorilla"
    IN [server |-> server, timestamp |-> ts,
        active_connections |-> active,
        cpu_percent |-> Frac(25 * cpu, 2),
        cpu_goroutines |-> IF go THEN Flt(8 + active) ELSE NaN,
        gc_count |-> IF go THEN Flt(3 * cpu) ELSE NaN,
        memory_alloc_mb |-> IF go THEN first ELSE NaN,
        memory_sys_mb |-> IF go THEN second ELSE NaN,
        cpu_user_ms |-> IF go THEN NaN ELSE Flt(100 * cpu),
        cpu_system_ms |-> IF go THEN NaN ELSE Flt(40 * cpu),
        memory_rss_mb |-> IF go THEN NaN ELSE first,
        memory_heap_used_mb |-> IF go THEN NaN ELSE second,
        memory_heap_total_mb |-> IF go THEN NaN ELSE FAdd(second, Flt(10)),
        memory_external_mb |-> IF go THEN NaN ELSE Frac(3, 2)]

ResourceRow(server, ts, first, second) == ResourceSample(server, ts, 100, 2, first, second)

Reverse(s) == [i \in 1..Len(s) |-> s[Len(s) + 1 - i]]

\* the samples of a server: nvalid periodic samples, after the first of
\* them ninvalid samples without timestamp; the second metric is constant
ServerSamples(server, nvalid, ninvalid, rate, k, w, reversed) ==
    LET valid == [i \in 1..nvalid |->
                     ResourceRow(server, 1700000000 + rate.step * (i - 1),
                                 Frac(SeriesValue(rate, k, w, i - 1), 1000),
                                 Frac(61440, 1000))]
        invalid == [i \in 1..ninvalid |->
                       ResourceRow(server, NaT, Frac(99999, 1000), Frac(61440, 1000))]
        all == <<valid[1]>> \o invalid \o Tail(valid)
    IN IF reversed THEN Reverse(all) ELSE all

SampleCounts == (MinSamples - 1)..MaxSamples

AllServerSamples(server) ==
    {ServerSamples(server, nv, ni, rate, k, w, rev) :
        nv \in SampleCounts, ni \in 0..MaxInvalid, rate \in Rates,
        k \in {-1, 0, 1}, w \in ScatterLevels, rev \in BOOLEAN}

\* the samples of the two servers of a mixed table
FirstServerSamples(server) ==
    {ServerSamples(server, nv, 0, rate, k, w, FALSE) :
        nv \in SampleCounts, rate \in Rates, k \in {-1, 0, 1}, w \in ScatterLevels}

SecondServerSamples(server) ==
    {ServerSamples(server, nv, ni, [unit |-> 12, step |-> 1], 1, 0, FALSE) :
        nv \in SampleCounts, ni \in {0, MaxInvalid}}

\* the series of the leak-detection example: 20 samples a minute apart
\* that grow by 1 MB each (k = 1) or stay constant (k = 0)
ExampleSamples(server, k) ==
    ServerSamples(server, 20, 0, [unit |-> 1000, step |-> 60], k, 0, FALSE)

\* the growing series of the example with one sample whose first metric is
\* missing
GappedSamples(server) ==
    [ExampleSamples(server, 1) EXCEPT ![5] = [@ EXCEPT ![ServerColumns[server][1]] = NaN]]

OtherServer(s) == CHOOSE o \in SeqRange(Servers) : o # s

\* pd.concat of the servers' tables: the columns of the servers that
\* have rows; no column when no server has any
ConcatColumns(rows) ==
    IF rows = <<>> THEN {}
    ELSE {"server", "timestamp"} \cup UNION {ServerSchema[rows[i].server] : i \in 1..Len(rows)}

ResourceTable(rows) == [kind |-> "resource", columns |-> ConcatColumns(rows), rows |-> rows]

ResourceTables ==
    UNION {{ResourceTable(t) :
               t \in AllServerSamples(s)
                       \cup {ExampleSamples(s, 0), ExampleSamples(s, 1), GappedSamples(s)}} :
           s \in SeqRange(Servers)}
    \cup UNION {{ResourceTable(t \o u) :
                    t \in FirstServerSamples(s), u \in SecondServerSamples(OtherServer(s))} :
                s \in SeqRange(Servers)}

\* a few samples of the servers at an instant, idle (0 connections) or
\* under load
LoadSamples ==
    {ResourceSample(s, 1700000000, l[1], l[2], Frac(50234 + 1000 * l[2], 1000),
                    Frac(61440, 1000)) :
        s \in SeqRange(Servers), l \in {<<0, 1>>, <<5, 1>>, <<25, 1>>, <<25, 3>>, <<26, 3>>}}

\* the tables of one kind whose rows are drawn from S, of exactly n rows
Tables(kind, S, n) == {[kind |-> kind, rows |-> t] : t \in [1..n -> S]}

(***************************************************************************)
(* Throughput tables: the samples of a library in timestamp order, each    *)
(* <<active_connections, messages_per_second>>, one library after the      *)
(* other.                                                                  *)
(***************************************************************************)
ThroughputLoads == {<<a, m>> : a \in {201, 204, 205, 400}, m \in {0, 10, 30}}

ThroughputSeries(library, loads) ==
    [i \in 1..Len(loads) |->
        [library |-> library, timestamp |-> 1700000000 + i,
         active_connections |-> loads[i][1], messages_per_second |-> loads[i][2]]]

\* the load schedule of the harness: a ramp 200, 400, ..., 3200 at 10, 20,
\* ... messages per second, then a second phase that starts again at 200
PhaseExample ==
    ThroughputSeries("libA",
        [i \in 1..18 |-> IF i <= 16 THEN <<200 * i, 10 * i>> ELSE <<200 * (i - 16), 7>>])

\* the samples of the second library of a table
SecondSeries == {<<>>, ThroughputSeries("libA", << <<204, 30>> >>)}

ThroughputTables(n) ==
    {[kind |-> "throughput", rows |-> u \o ThroughputSeries("libB", t)] :
        t \in [1..n -> ThroughputLoads], u \in SecondSeries}

(***************************************************************************)
(* Connection stability tables: one row per client.                        *)
(***************************************************************************)
StabilityRows ==
    {[library |-> l, client_count |-> c, disconnect_count |-> d] :
        l \in SeqRange(Libraries), c \in ClientCounts, d \in {0, 2}}

(***************************************************************************)
(* The arguments of create_summary_table: aggregate tables with the rows   *)
(* of each library at its first load levels.                               *)
(***************************************************************************)
LoadLevels == <<10, 100, 1000>>

\* the aggregate rows of library l at n load levels of a latency-class
\* metric with values around base
LatencyStats(l, n, base) ==
    [i \in 1..n |->
        [library |-> l, client_count |-> LoadLevels[i],
         mean |-> Frac(2 * base + 7 * i * i + LibRank(l), 2),
         median |-> Flt(base + 2 * i * i - LibRank(l)),
         count |-> 3]]

ThroughputStats(l, n) ==
    [i \in 1..n |->
        [library |-> l,
         mean |-> Frac(400 * LibRank(l) - 25 * i, 2),
         max |-> Flt(300 * LibRank(l) - 10 * i),
         count |-> 4]]

LossRates ==
    [libA |-> <<Flt(0), Frac(3333, 100), NaN>>, libB |-> <<Flt(50), PosInf, Flt(25)>>]

ReliabilityStats(l, n) ==
    [i \in 1..n |->
        [library |-> l, client_count |-> LoadLevels[i],
         messages_lost_sum |-> 2 * i + LibRank(l),
         total_loss_rate |-> LossRates[l][i]]]

StabilityStats(l, n) ==
    [i \in 1..n |->
        [library |-> l, client_count |-> LoadLevels[i],
         disconnect_count_sum |-> 3 * i - LibRank(l),
         clients_with_disconnects_pct |-> Frac(3333 * i + 100 * LibRank(l), 100)]]

\* the numbers of load levels <<of libA, of libB>> of each argument
LevelCounts ==
    [rtt_df |-> (0..MaxLoads) \X (0..MaxLoads),
     conn_df |-> {<<0, 0>>, <<MaxLoads, 1>>, <<0, MaxLoads>>},
     broadcast_df |-> {<<0, 0>>, <<1, 1>>},
     throughput_df |-> {<<0, 0>>, <<1, 0>>, <<MaxLoads, 1>>, <<0, MaxLoads>>},
     reliability_df |-> {<<0, 0>>, <<MaxLoads, 0>>, <<1, MaxLoads>>},
     stability_df |-> {<<0, 0>>, <<0, MaxLoads>>, <<MaxLoads, 1>>}]

Given(rows) == [given |-> TRUE, rows |-> rows]

None == [given |-> FALSE, rows |-> <<>>]

SummaryTables ==
    {[kind |-> "summary",
      rtt_df |-> Given(LatencyStats("libA", r[1], 40) \o LatencyStats("libB", r[2], 40)),
      conn_df |-> Given(LatencyStats("libA", c[1], 5) \o LatencyStats("libB", c[2], 5)),
      broadcast_df |->
          Given(LatencyStats("libA", b[1], 12) \o LatencyStats("libB", b[2], 12)),
      throughput_df |-> Given(ThroughputStats("libA", t[1]) \o ThroughputStats("libB", t[2])),
      reliability_df |-> rel,
      stability_df |-> stab] :
        r \in LevelCounts.rtt_df, c \in LevelCounts.conn_df,
        b \in LevelCounts.broadcast_df, t \in LevelCounts.throughput_df,
        rel \in {None} \cup {Given(ReliabilityStats("libA", x[1])
                                     \o ReliabilityStats("libB", x[2])) :
                                 x \in LevelCounts.reliability_df},
        stab \in {None} \cup {Given(StabilityStats("libA", x[1])
                                      \o StabilityStats("libB", x[2])) :
                                  x \in LevelCounts.stability_df}}

(***************************************************************************)
(* The calculator as a state machine: a table is handed to one operation   *)
(* of StatisticsCalculator, which returns its result table.                *)
(***************************************************************************)
VARIABLES
    df,      \* the input table: [kind, rows]
    call,    \* the operation that was called on df, "none" before the call
    out,     \* the table the operation returned (its rows)
    err,     \* the exception the operation raised, "none" when it returned
    pc,      \* the position of main(), "none" when main() is not running
    status   \* the exit status of the process in a sequence, empty while it runs

vars == <<df, call, out, err, pc, status>>

Init ==
    /\ \/ df \in ResourceTables
       \/ \E n \in 0..MaxRows :
              \/ df \in Tables("rtt", ObservationRows("rtt_ms", {1, 2, 3}), n)
              \/ df \in Tables("connection_time",
                               ObservationRows("connection_time_ms", {5, 8}), n)
              \/ df \in Tables("broadcast_latency",
                               ObservationRows("latency_ms", {2, 7}), n)
       \/ \E n \in 0..MaxRelRows : df \in Tables("reliability", ReliabilityRows, n)
       \/ \E n \in 0..MaxStatsRows : df \in Tables("rtt_stats", RttStatsRows, n)
       \/ \E n \in 0..MaxLoadSamples : df \in {ResourceTable(t) : t \in [1..n -> LoadSamples]}
       \/ \E n \in 0..MaxThroughput : df \in ThroughputTables(n)
       \/ df = [kind |-> "throughput", rows |-> PhaseExample]
       \/ \E n \in 0..MaxStabRows : df \in Tables("stability", StabilityRows, n)
       \/ df \in SummaryTables
    /\ call = "none"
    /\ out = <<>>
    /\ err = "none"
    /\ pc = "none"
    /\ status = <<>>

AggregateRtt ==
    /\ call = "none" /\ df.kind = "rtt"
    /\ out' = aggregate_rtt_stats(df.rows)
    /\ call' = "aggregate_rtt_stats"
    /\ err' = "none"
    /\ UNCHANGED df
    /\ UNCHANGED <<pc, status>>

AggregateConnectionTime ==
    /\ call = "none" /\ df.kind = "connection_time"
    /\ out' = aggregate_connection_time_stats(df.rows)
    /\ call' = "aggregate_connection_time_stats"
    /\ err' = "none"
    /\ UNCHANGED df
    /\ UNCHANGED <<pc, status>>

AggregateBroadcastLatency ==
    /\ call = "none" /\ df.kind = "broadcast_latency"
    /\ out' = aggregate_broadcast_latency_stats(df.rows)
    /\ call' = "aggregate_broadcast_latency_stats"
    /\ err' = "none"
    /\ UNCHANGED df
    /\ UNCHANGED <<pc, status>>

AggregateReliability ==
    /\ call = "none" /\ df.kind = "reliability"
    /\ out' = aggregate_reliability_stats(df.rows)
    /\ call' = "aggregate_reliability_stats"
    /\ err' = "none"
    /\ UNCHANGED df
    /\ UNCHANGED <<pc, status>>

CalculatePerformanceDegradation ==
    /\ call = "none" /\ df.kind = "rtt_stats"
    /\ out' = calculate_performance_degradation(df.rows)
    /\ call' = "calculate_performance_degradation"
    /\ err' = "none"
    /\ UNCHANGED df
    /\ UNCHANGED <<pc, status>>

DetectMemoryLeaks ==
    /\ call = "none" /\ df.kind = "resource"
    /\ out' = detect_memory_leaks(df)
    /\ call' = "detect_memory_leaks"
    /\ err' = "none"
    /\ df' = leaks_input(df)
    /\ UNCHANGED <<pc, status>>

\* analyze.py calls aggregate_throughput_stats, which StatisticsCalculator
\* does not define: the attribute lookup raises AttributeError
AggregateThroughput ==
    /\ call = "none" /\ df.kind = "throughput"
    /\ out' = <<>>
    /\ err' = "AttributeError"
    /\ call' = "aggregate_throughput_stats"
    /\ UNCHANGED df
    /\ UNCHANGED <<pc, status>>

CalculateThroughputVsLoad ==
    /\ call = "none" /\ df.kind = "throughput"
    /\ out' = calculate_throughput_vs_load(df.rows)
    /\ err' = "none"
    /\ call' = "calculate_throughput_vs_load"
    /\ df' = throughput_vs_load_input(df)
    /\ UNCHANGED <<pc, status>>

AggregateStability ==
    /\ call = "none" /\ df.kind = "stability"
    /\ out' = aggregate_stability_stats(df.rows)
    /\ err' = "none"
    /\ call' = "aggregate_stability_stats"
    /\ UNCHANGED df
    /\ UNCHANGED <<pc, status>>

AggregateResource ==
    /\ call = "none" /\ df.kind = "resource"
    /\ out' = aggregate_resource_stats(df)
    /\ err' = ResourceStatsError(df)
    /\ call' = "aggregate_resource_stats"
    /\ UNCHANGED df
    /\ UNCHANGED <<pc, status>>

AggregateCpuByPhase ==
    /\ call = "none" /\ df.kind = "resource"
    /\ out' = aggregate_cpu_by_phase(df)
    /\ err' = CpuPhaseError(df)
    /\ call' = "aggregate_cpu_by_phase"
    /\ df' = phase_input(df)
    /\ UNCHANGED <<pc, status>>

AggregateMemoryByPhase ==
    /\ call = "none" /\ df.kind = "resource"
    /\ out' = aggregate_memory_by_phase(df)
    /\ err' = MemoryPhaseError(df)
    /\ call' = "aggregate_memory_by_phase"
    /\ df' = phase_input(df)
    /\ UNCHANGED <<pc, status>>

CreateSummaryTable ==
    /\ call = "none" /\ df.kind = "summary"
    /\ out' = create_summary_table(df)
    /\ err' = SummaryError(df)
    /\ call' = "create_summary_table"
    /\ UNCHANGED df
    /\ UNCHANGED <<pc, status>>

Next ==
    \/ AggregateThroughput
    \/ CalculateThroughputVsLoad
    \/ AggregateStability
    \/ AggregateResource
    \/ AggregateCpuByPhase
    \/ AggregateMemoryByPhase
    \/ CreateSummaryTable
    \/ AggregateRtt
    \/ AggregateConnectionTime
    \/ AggregateBroadcastLatency
    \/ AggregateReliability
    \/ CalculatePerformanceDegradation
    \/ DetectMemoryLeaks

Spec == Init /\ [][Next]_vars

(***************************************************************************)
(* The analysis run: main() of analyze.py.  Its input is the data          *)
(* directory: whether it exists, the --libraries argument and the kinds of *)
(* data files it holds (of library libA at one client count; the resource  *)
(* file is the one of a server).  out is the list of the stages main() has *)
(* completed, each with what it produced.                                  *)
(***************************************************************************)
DataKinds ==
    {"rtt", "connection_time", "broadcast_latency", "throughput", "reliability",
     "connection_stability", "resources"}

RunEnvironments ==
    {[kind |-> "run", exists |-> TRUE, libraries |-> a, files |-> f] :
        a \in {<<>>, <<"libA">>}, f \in SUBSET DataKinds}
    \cup {[kind |-> "run", exists |-> FALSE, libraries |-> a, files |-> {}] :
             a \in {<<>>, <<"libA">>}}

\* the methods StatisticsCalculator defines
DefinedMethods ==
    {"calculate_basic_stats", "aggregate_rtt_stats", "aggregate_connection_time_stats",
     "aggregate_broadcast_latency_stats", "calculate_throughput_vs_load",
     "create_summary_table", "calculate_percentiles", "aggregate_reliability_stats",
     "aggregate_stability_stats", "aggregate_resource_stats", "aggregate_cpu_by_phase",
     "aggregate_memory_by_phase", "calculate_performance_degradation",
     "detect_memory_leaks"}

\* the calls of main() on stats_calc, in order, each with the kind of data
\* it is given
CalculatorCalls ==
    <<[method |-> "aggregate_rtt_stats", data |-> "rtt"],
      [method |-> "aggregate_connection_time_stats", data |-> "connection_time"],
      [method |-> "aggregate_broadcast_latency_stats", data |-> "broadcast_latency"],
      [method |-> "aggregate_throughput_stats", data |-> "throughput"],
      [method |-> "aggregate_reliability_stats", data |-> "reliability"],
      [method |-> "aggregate_stability_stats", data |-> "connection_stability"],
      [method |-> "aggregate_resource_stats", data |-> "resources"]>>

\* the positions of main() after the loading of the data
Stages ==
    [i \in 1..Len(CalculatorCalls) |-> CalculatorCalls[i].method]
    \o <<"create_summary_table", "export", "visualize", "complete">>

\* loader.discover_libraries(): the libraries that have RTT files
discover_libraries(env) == IF "rtt" \in env.files THEN <<"libA">> ELSE <<>>

\* the libraries main() analyses
RunLibraries(env) ==
    IF env.libraries # <<>> THEN env.libraries ELSE discover_libraries(env)

\* the kinds of data that main() loads a non-empty table of: the per-client
\* files are looked for at the client counts of the RTT files
LoadedKinds(env) ==
    {k \in env.files :
        \/ k \in {"throughput", "resources"}
        \/ "rtt" \in env.files}

\* what a stage produces: the statistics table if it is not empty, the
\* summary table if one of the six tables has a library, the files written
\* and the charts drawn
Produced(env, stage) ==
    IF \E c \in SeqRange(CalculatorCalls) : c.method = stage
    THEN {c.data : c \in {x \in SeqRange(CalculatorCalls) :
                             x.method = stage /\ x.data \in LoadedKinds(env)}}
    ELSE IF stage = "complete" THEN {}
    ELSE (IF LoadedKinds(env) \ {"resources"} # {} THEN {"summary"} ELSE {})
         \cup (IF stage = "create_summary_table" THEN {} ELSE LoadedKinds(env))

\* the exception a stage raises: a call of a method that StatisticsCalculator
\* does not define raises AttributeError
StageError(stage) ==
    IF /\ \E c \in SeqRange(CalculatorCalls) : c.method = stage
       /\ stage \notin DefinedMethods
    THEN "AttributeError" ELSE "none"

StageAfter(stage) ==
    LET i == CHOOSE k \in 1..Len(Stages) : Stages[k] = stage
    IN IF i = Len(Stages) THEN "exited" ELSE Stages[i + 1]

MainInit ==
    /\ df \in RunEnvironments
    /\ call = "main"
    /\ out = <<>>
    /\ err = "none"
    /\ pc = "initialize"
    /\ status = <<>>

\* DataLoader(args.data_dir): ValueError when the directory does not
\* exist, which main() answers with sys.exit(1)
MainInitialize ==
    /\ pc = "initialize"
    /\ IF df.exists
       THEN pc' = "discover" /\ UNCHANGED <<status, err>>
       ELSE pc' = "exited" /\ status' = <<1>> /\ err' = "SystemExit"
    /\ UNCHANGED <<df, call, out>>

\* the libraries of --libraries, or else the discovered ones; sys.exit(1)
\* when none is discovered
MainDiscover ==
    /\ pc = "discover"
    /\ IF RunLibraries(df) # <<>>
       THEN pc' = "load" /\ UNCHANGED <<status, err>>
       ELSE pc' = "exited" /\ status' = <<1>> /\ err' = "SystemExit"
    /\ UNCHANGED <<df, call, out>>

MainLoad ==
    /\ pc = "load"
    /\ out' = <<[stage |-> "load", produced |-> LoadedKinds(df)]>>
    /\ pc' = Stages[1]
    /\ UNCHANGED <<df, call, err, status>>

\* one stage after the loading: it completes, or its exception leaves
\* main() and ends the process with status 1; the last stage returns 0
MainStage ==
    /\ pc \in SeqRange(Stages)
    /\ IF StageError(pc) # "none"
       THEN /\ err' = StageError(pc)
            /\ pc' = "exited"
            /\ status' = <<1>>
            /\ UNCHANGED out
       ELSE /\ out' = Append(out, [stage |-> pc, produced |-> Produced(df, pc)])
            /\ pc' = StageAfter(pc)
            /\ status' = IF pc = "complete" THEN <<0>> ELSE status
            /\ UNCHANGED err
    /\ UNCHANGED <<df, call>>

MainNext ==
    \/ MainInitialize
    \/ MainDiscover
    \/ MainLoad
    \/ MainStage

\* the interpreter runs main() to its end
MainSpec == MainInit /\ [][MainNext]_vars /\ WF_vars(MainNext)

(***************************************************************************)
(* Helpers of the properties.                                              *)
(***************************************************************************)
\* the value column of the latency-class table kinds
ValueColumn ==
    [rtt |-> "rtt_ms", connection_time |-> "connection_time_ms",
     broadcast_latency |-> "latency_ms"]

LatencyCalls ==
    {"aggregate_rtt_stats", "aggregate_connection_time_stats",
     "aggregate_broadcast_latency_stats"}

\* the input rows that carry key k, and their values in column col
RowsOfKey(rows, k) == SelectSeq(rows, LAMBDA r : r.library = k[1] /\ r.client_count = k[2])

ValuesOfKey(rows, k, col) == Column(RowsOfKey(rows, k), col)

KeysOf(rows) == {<<rows[i].library, rows[i].client_count>> : i \in 1..Len(rows)}

\* the indices of the output rows of key k
OutRowsOfKey(k) == {j \in 1..Len(out) : out[j].library = k[1] /\ out[j].client_count = k[2]}

\* C1: after a latency-class aggregator, every key of the input has exactly
\* one output row, and its mean, median, min, max and count are the
\* statistics of exactly the input rows that carry the key.
C1_GroupStatsEqualDirectStats ==
    call \in LatencyCalls =>
        \A k \in KeysOf(df.rows) :
            /\ Cardinality(OutRowsOfKey(k)) = 1
            /\ \A j \in OutRowsOfKey(k) :
                  LET direct == calculate_basic_stats(
                                    ValuesOfKey(df.rows, k, ValueColumn[df.kind]))
                  IN /\ out[j].mean = direct.mean
                     /\ out[j].median = direct.median
                     /\ out[j].min = direct.min
                     /\ out[j].max = direct.max
                     /\ out[j].count = direct.count

\* a latency-class aggregator has run on a table with two keys, one of them
\* with several rows of different values
C1_Witness ==
    /\ call \in LatencyCalls
    /\ Len(out) = 2
    /\ \E j \in 1..Len(out) : out[j].count = 2 /\ out[j].min # out[j].max

\* the exact ratio 100 * sum(messages_lost) / sum(messages_sent) over the
\* input rows of key k
ExactLossRate(rows, k) ==
    FDiv(Flt(100 * SeqSum(ValuesOfKey(rows, k, "messages_lost"))),
         Flt(SeqSum(ValuesOfKey(rows, k, "messages_sent"))))

SentSum(rows, k) == SeqSum(ValuesOfKey(rows, k, "messages_sent"))

LostSum(rows, k) == SeqSum(ValuesOfKey(rows, k, "messages_lost"))

\* C2 as claimed: total_loss_rate of every key with messages sent is
\* exactly 100 * sum(messages_lost) / sum(messages_sent), without rounding.
C2_TotalLossRateExact ==
    call = "aggregate_reliability_stats" =>
        \A k \in KeysOf(df.rows) :
            SentSum(df.rows, k) > 0 =>
                \A j \in OutRowsOfKey(k) : out[j].total_loss_rate = ExactLossRate(df.rows, k)

\* C2 amended: every key of the input has one output row, and for a key
\* with messages sent its total_loss_rate is the ratio of the summed
\* counters, 100 * sum(messages_lost) / sum(messages_sent), rounded to two
\* decimals; it is not the average of the per-client loss rates.
C2_TotalLossRateRounded ==
    call = "aggregate_reliability_stats" =>
        \A k \in KeysOf(df.rows) :
            /\ Cardinality(OutRowsOfKey(k)) = 1
            /\ SentSum(df.rows, k) > 0 =>
                  \A j \in OutRowsOfKey(k) :
                     /\ out[j].total_loss_rate = FRound(ExactLossRate(df.rows, k), 2)
                     /\ out[j].messages_lost_sum = LostSum(df.rows, k)
                     /\ out[j].messages_sent_sum = SentSum(df.rows, k)

\* a key of two clients whose summed ratio (1 of 3 lost) is neither a
\* two-decimal number nor the average of the clients' loss rates
C2_Witness ==
    /\ call = "aggregate_reliability_stats"
    /\ \E j \in 1..Len(out) :
          /\ out[j].messages_sent_sum = 3
          /\ out[j].messages_lost_sum = 1
          /\ out[j].total_loss_rate = Frac(3333, 100)
          /\ out[j].loss_rate_percent_mean = Flt(25)

\* C3 as claimed: a key whose summed messages_sent is 0 has total_loss_rate
\* not-a-number, whatever its summed messages_lost.
C3_ZeroSentGivesNaN ==
    call = "aggregate_reliability_stats" =>
        \A j \in 1..Len(out) :
            out[j].messages_sent_sum = 0 => IsNaN(out[j].total_loss_rate)

\* the rows of the claim's example, in either order
C4_Example ==
    LET lo == [library |-> "libA", client_count |-> 10, mean |-> Flt(50)]
        hi == [library |-> "libA", client_count |-> 100, mean |-> Flt(150)]
    IN {<<lo, hi>>, <<hi, lo>>}

\* C4 as claimed: the example gives one row with total_degradation_pct 200.0
\* and degradation_per_100_clients_pct 200.0.
C4_ExampleGives200And200 ==
    (call = "calculate_performance_degradation" /\ df.rows \in C4_Example) =>
        /\ Len(out) = 1
        /\ out[1].library = "libA"
        /\ out[1].total_degradation_pct = Flt(200)
        /\ out[1].degradation_per_100_clients_pct = Flt(200)

\* C4 amended: the example gives one row for libA with
\* total_degradation_pct 200.0 and degradation_per_100_clients_pct 222.22
\* (200 / ((100 - 10) / 100), rounded to two decimals).
C4_ExampleGives200And222 ==
    (call = "calculate_performance_degradation" /\ df.rows \in C4_Example) =>
        /\ Len(out) = 1
        /\ out[1].library = "libA"
        /\ out[1].baseline_clients = 10
        /\ out[1].peak_clients = 100
        /\ out[1].total_degradation_pct = Flt(200)
        /\ out[1].degradation_per_100_clients_pct = Frac(22222, 100)

C4_Witness ==
    /\ call = "calculate_performance_degradation"
    /\ df.rows \in C4_Example
    /\ Len(out) = 1

\* the rows of a library in input order, and its client counts
RowsOfLibrary(rows, l) == SelectSeq(rows, LAMBDA r : r.library = l)

LevelsOfLibrary(rows, l) == {r.client_count : r \in SeqRange(RowsOfLibrary(rows, l))}

\* the mean of the first input row of library l at client count c
FirstMeanAt(rows, l, c) ==
    SelectSeq(rows, LAMBDA r : r.library = l /\ r.client_count = c)[1].mean

BaselineMean(rows, l) ==
    FirstMeanAt(rows, l, CHOOSE c \in LevelsOfLibrary(rows, l) :
                             \A o \in LevelsOfLibrary(rows, l) : c <= o)

PeakMean(rows, l) ==
    FirstMeanAt(rows, l, CHOOSE c \in LevelsOfLibrary(rows, l) :
                             \A o \in LevelsOfLibrary(rows, l) : c >= o)

\* (peak - baseline) / baseline * 100 in exact arithmetic
ExactDegradation(baseline, peak) ==
    Frac((peak.num * baseline.den - baseline.num * peak.den) * 100,
         baseline.num * peak.den)

\* C5 as claimed: total_degradation_pct is (peak.mean - baseline.mean) /
\* baseline.mean * 100 when baseline.mean is not zero, and zero when it is.
C5_DegradationExact ==
    call = "calculate_performance_degradation" =>
        \A j \in 1..Len(out) :
            LET baseline == BaselineMean(df.rows, out[j].library)
                peak == PeakMean(df.rows, out[j].library)
            IN IF baseline.num # 0
               THEN out[j].total_degradation_pct = ExactDegradation(baseline, peak)
               ELSE out[j].total_degradation_pct = Flt(0)

\* C5 amended: total_degradation_pct is (peak.mean - baseline.mean) /
\* baseline.mean * 100 rounded to two decimals when baseline.mean is
\* positive, and zero when baseline.mean is zero; baseline and peak are the
\* rows at the library's minimum and maximum client_count.
C5_DegradationRounded ==
    call = "calculate_performance_degradation" =>
        \A j \in 1..Len(out) :
            LET baseline == BaselineMean(df.rows, out[j].library)
                peak == PeakMean(df.rows, out[j].library)
            IN /\ out[j].baseline_rtt_ms = baseline
               /\ out[j].peak_rtt_ms = peak
               /\ IF baseline.num > 0
                  THEN out[j].total_degradation_pct =
                           FRound(ExactDegradation(baseline, peak), 2)
                  ELSE out[j].total_degradation_pct = Flt(0)

\* a row with a zero baseline and a non-zero peak
C5_Witness ==
    /\ call = "calculate_performance_degradation"
    /\ \E j \in 1..Len(out) :
          /\ out[j].baseline_rtt_ms = Flt(0)
          /\ out[j].peak_rtt_ms = Flt(150)
          /\ out[j].baseline_clients < out[j].peak_clients
          /\ out[j].total_degradation_pct = Flt(0)

OutRowsOfLibrary(l) == {j \in 1..Len(out) : out[j].library = l}

\* C6 as claimed: a library has a row if and only if it has at least two
\* distinct client_count values, and every row has baseline_clients <
\* peak_clients.
C6_RowIffTwoDistinctLevels ==
    call = "calculate_performance_degradation" =>
        /\ \A l \in SeqRange(Libraries) :
              (OutRowsOfLibrary(l) # {}) <=> (Cardinality(LevelsOfLibrary(df.rows, l)) >= 2)
        /\ \A j \in 1..Len(out) : out[j].baseline_clients < out[j].peak_clients

\* C6 amended: a library has a row (exactly one) if and only if it has at
\* least two rows in the input table; a library with fewer than two rows
\* gets no row; every row has baseline_clients <= peak_clients, and they
\* are equal (with degradation_per_100_clients_pct zero) exactly when all
\* rows of the library share one client_count.
C6_RowIffTwoRows ==
    call = "calculate_performance_degradation" =>
        /\ \A l \in SeqRange(Libraries) :
              Cardinality(OutRowsOfLibrary(l)) =
                  IF Len(RowsOfLibrary(df.rows, l)) >= 2 THEN 1 ELSE 0
        /\ \A j \in 1..Len(out) :
              /\ out[j].baseline_clients <= out[j].peak_clients
              /\ (out[j].baseline_clients = out[j].peak_clients)
                     <=> (Cardinality(LevelsOfLibrary(df.rows, out[j].library)) = 1)
              /\ (out[j].baseline_clients = out[j].peak_clients)
                     => out[j].degradation_per_100_clients_pct = Flt(0)

\* one library with two rows at the same client_count got a row, while a
\* library with a single row got none
C6_Witness ==
    /\ call = "calculate_performance_degradation"
    /\ Len(out) = 1
    /\ out[1].baseline_clients = out[1].peak_clients
    /\ \E l \in SeqRange(Libraries) :
          Len(RowsOfLibrary(df.rows, l)) = 1 /\ OutRowsOfLibrary(l) = {}

(***************************************************************************)
(* Helpers of the leak-detection properties.                               *)
(***************************************************************************)
\* the samples of server s with a valid timestamp
SamplesOf(s) == {r \in SeqRange(df.rows) : r.server = s /\ r.timestamp # NaT}

\* the samples of server s in chronological order
Chronological(s) ==
    [i \in 1..Cardinality(SamplesOf(s)) |->
        CHOOSE r \in SamplesOf(s) :
            Cardinality({o \in SamplesOf(s) : o.timestamp < r.timestamp}) = i - 1]

\* the column of the metric an output row is about
ColumnOfMetric(name) == (CHOOSE m \in SeqRange(MemoryColumns) : m.name = name).col

\* the metric values of output row j in chronological order, their elapsed
\* seconds, and the regression through them
ValuesOfRow(j) == Column(Chronological(out[j].server), ColumnOfMetric(out[j].metric))

ElapsedOfRow(j) ==
    LET c == Chronological(out[j].server)
    IN [i \in 1..Len(c) |-> c[i].timestamp - c[1].timestamp]

RegressionOfRow(j) == linregress(ElapsedOfRow(j), ValuesOfRow(j))

OutRowsOfServer(s) == {j \in 1..Len(out) : out[j].server = s}

\* C7: leak_detected of a row is true if and only if the fitted slope is
\* above 0.01 MB/s, R^2 is above 0.7 and the p-value is below 0.05.
C7_LeakIffAllThree ==
    call = "detect_memory_leaks" =>
        \A j \in 1..Len(out) :
            LET reg == RegressionOfRow(j)
            IN out[j].leak_detected <=>
                  /\ IsFin(reg.slope) /\ 100 * reg.slope.num > reg.slope.den
                  /\ IsFin(reg.r_squared) /\ 10 * reg.r_squared.num > 7 * reg.r_squared.den
                  /\ PBelow05(reg.p_value)

\* one series is flagged, and another that grows by more than 0.01 MB/s
\* (36 MB/h) is not, because its R^2 is not above 0.7
C7_Witness ==
    /\ call = "detect_memory_leaks"
    /\ \E j \in 1..Len(out) : out[j].leak_detected
    /\ \E j \in 1..Len(out) :
          /\ ~out[j].leak_detected
          /\ FGt(out[j].growth_rate_mb_per_hour, Flt(36))
          /\ IsFin(out[j].r_squared) /\ ~FGt(out[j].r_squared, Frac(7, 10))

\* C8: 20 samples that grow by 1 MB every 60 seconds give leak_detected
\* true, growth_rate_mb_per_hour 60 and r_squared 1; a constant series of
\* 20 samples gives leak_detected false.
C8_LinearLeakExample ==
    call = "detect_memory_leaks" =>
        \A s \in SeqRange(Servers) :
            /\ df.rows = ExampleSamples(s, 1) =>
                  \E j \in 1..Len(out) :
                     /\ out[j].server = s
                     /\ ColumnOfMetric(out[j].metric) = ServerColumns[s][1]
                     /\ out[j].leak_detected
                     /\ out[j].growth_rate_mb_per_hour = Flt(60)
                     /\ out[j].r_squared = Flt(1)
            /\ df.rows = ExampleSamples(s, 0) =>
                  /\ Len(out) = 2
                  /\ \A j \in 1..Len(out) :
                        /\ ~out[j].leak_detected
                        /\ out[j].growth_rate_mb_per_hour = Flt(0)

C8_Witness ==
    /\ call = "detect_memory_leaks"
    /\ df.rows = ExampleSamples(Servers[1], 1)
    /\ Len(out) = 2
    /\ out[1].leak_detected

\* C9: a server has rows if and only if it has at least 10 samples with a
\* valid timestamp; a server below that has no row, whatever the other
\* servers of the table have.
C9_RowsIffTenValidSamples ==
    call = "detect_memory_leaks" =>
        \A s \in SeqRange(Servers) :
            Cardinality(OutRowsOfServer(s)) =
                IF Cardinality(SamplesOf(s)) >= 10
                THEN Cardinality({m \in SeqRange(MemoryColumns) : m.col \in df.columns})
                ELSE 0

\* a server with ten samples, nine of them with a valid timestamp, has no
\* row, and the other server of the table has its rows
C9_Witness ==
    /\ call = "detect_memory_leaks"
    /\ \E s \in SeqRange(Servers) :
          /\ Len(SelectSeq(df.rows, LAMBDA r : r.server = s)) = 10
          /\ Cardinality(SamplesOf(s)) = 9
          /\ OutRowsOfServer(s) = {}
    /\ out # <<>>

\* C10 as claimed: total_growth_mb is the absolute difference of the first
\* and the last value (as reported, to two decimals), so it is never
\* negative; start_memory_mb and end_memory_mb are the first and the last
\* value.
C10_GrowthIsAbsoluteDifference ==
    call = "detect_memory_leaks" =>
        \A j \in 1..Len(out) :
            LET v == ValuesOfRow(j)
                d == FSub(v[Len(v)], v[1])
            IN /\ out[j].start_memory_mb = FRound(v[1], 2)
               /\ out[j].end_memory_mb = FRound(v[Len(v)], 2)
               /\ IsFin(d) =>
                     /\ out[j].total_growth_mb.num >= 0
                     /\ out[j].total_growth_mb = FRound(Frac(Abs(d.num), d.den), 2)

\* C10 amended: total_growth_mb is the signed difference last - first of
\* the chronologically first and last value of the metric, rounded to two
\* decimals (negative when the metric shrank, nan when the server did not
\* report the metric); start_memory_mb and end_memory_mb are that first
\* and last value rounded to two decimals.
C10_GrowthIsSignedDifference ==
    call = "detect_memory_leaks" =>
        \A j \in 1..Len(out) :
            LET v == ValuesOfRow(j)
            IN /\ out[j].start_memory_mb = FRound(v[1], 2)
               /\ out[j].end_memory_mb = FRound(v[Len(v)], 2)
               /\ out[j].total_growth_mb =
                     IF IsNaN(v[1]) \/ IsNaN(v[Len(v)]) THEN NaN
                     ELSE FRound(Frac(v[Len(v)].num * v[1].den - v[1].num * v[Len(v)].den,
                                      v[1].den * v[Len(v)].den), 2)

\* a metric that shrank, from rows given in reverse chronological order
C10_Witness ==
    /\ call = "detect_memory_leaks"
    /\ df.rows # <<>>
    /\ df.rows[1].timestamp > df.rows[Len(df.rows)].timestamp
    /\ \E j \in 1..Len(out) :
          /\ IsFin(out[j].total_growth_mb)
          /\ out[j].total_growth_mb.num < 0
          /\ out[j].start_memory_mb # ValuesOfRow(j)[1]

(***************************************************************************)
(* Resource statistics.                                                    *)
(***************************************************************************)
GoroutineFields ==
    {"cpu_goroutines_mean", "cpu_goroutines_max", "memory_alloc_mb_mean",
     "memory_alloc_mb_max", "memory_sys_mb_mean", "memory_sys_mb_max", "gc_count_total"}

EventLoopFields ==
    {"cpu_user_ms_mean", "cpu_user_ms_max", "cpu_system_ms_mean", "cpu_system_ms_max",
     "memory_rss_mb_mean", "memory_rss_mb_max", "memory_heap_used_mb_mean",
     "memory_heap_used_mb_max"}

\* server s reported none of the columns cols: they are null in all its rows
ReportedNone(s, cols) ==
    \A i \in 1..Len(df.rows) :
        df.rows[i].server = s => \A c \in cols : IsNaN(df.rows[i][c])

\* none of the fields is populated on the row: each is missing from the
\* table or null in the row
Unpopulated(row, fields) == \A f \in fields \cap DOMAIN row : IsNaN(row[f])

\* C11: on the summary row of a server that reported only event-loop
\* fields no goroutine field is populated, and on the row of a server that
\* reported only goroutine fields no event-loop field is populated, also
\* when the table holds servers of both kinds.
C11_NoFieldOfTheOtherRuntime ==
    call = "aggregate_resource_stats" =>
        /\ err = "none"
        /\ \A j \in 1..Len(out) :
              /\ ReportedNone(out[j].server, GoroutineInputs)
                    => Unpopulated(out[j], GoroutineFields)
              /\ ReportedNone(out[j].server, EventLoopInputs)
                    => Unpopulated(out[j], EventLoopFields)

\* a table of both kinds of server: the summary table has the columns of
\* both, and each row has only those of its server
C11_Witness ==
    /\ call = "aggregate_resource_stats"
    /\ Len(out) = 2
    /\ \E j \in 1..2 :
          /\ out[j].server = "ws"
          /\ IsNaN(out[j]["cpu_goroutines_mean"])
          /\ IsFin(out[j]["cpu_user_ms_mean"])
          /\ IsFin(out[3 - j]["cpu_goroutines_mean"])
          /\ IsNaN(out[3 - j]["memory_rss_mb_max"])

(***************************************************************************)
(* Throughput against load.                                                *)
(***************************************************************************)
\* the samples of library l with a positive message rate, in table order
\* (which is timestamp order)
PositiveSamples(l) ==
    SelectSeq(df.rows, LAMBDA r : r.library = l /\ r.messages_per_second > 0)

\* the first index of the series at which active_connections falls by more
\* than 50, Len + 1 when there is none
PhaseBoundary(series) ==
    IF \E i \in 2..Len(series) :
          series[i].active_connections - series[i - 1].active_connections < -50
    THEN CHOOSE i \in 2..Len(series) :
            /\ series[i].active_connections - series[i - 1].active_connections < -50
            /\ \A k \in 2..(i - 1) :
                  series[k].active_connections - series[k - 1].active_connections >= -50
    ELSE Len(series) + 1

FirstPhase(series) == SubSeq(series, 1, PhaseBoundary(series) - 1)

\* c is the multiple of ten nearest to a, the even one of two
NearestTen(a, c) ==
    /\ c % 10 = 0
    /\ Abs(a - c) <= 5
    /\ Abs(a - c) = 5 => (c \div 10) % 2 = 0

\* the samples of the series in the bucket of level c
InBucket(series, c) == SelectSeq(series, LAMBDA r : NearestTen(r.active_connections, c))

MeanRate(series) == Frac(SeqSum(Column(series, "messages_per_second")), Len(series))

\* C12 as claimed: only the samples of the first phase of a library (those
\* before the first fall of active_connections by more than 50) have a row
\* and contribute to mean_throughput.
C12_FirstPhaseOnly ==
    call = "calculate_throughput_vs_load" =>
        \A l \in SeqRange(Libraries) :
            LET retained == FirstPhase(PositiveSamples(l))
            IN /\ \A i \in 1..Len(retained) :
                     \E j \in OutRowsOfLibrary(l) :
                        NearestTen(retained[i].active_connections, out[j].client_count)
               /\ \A j \in OutRowsOfLibrary(l) :
                     /\ InBucket(retained, out[j].client_count) # <<>>
                     /\ out[j].mean_throughput =
                            MeanRate(InBucket(retained, out[j].client_count))

\* C13 as claimed: one row per distinct active_connections value of the
\* samples with a positive rate, with that value as client_count and the
\* mean rate of the samples at exactly that value.
C13_GroupsByExactLevel ==
    call = "calculate_throughput_vs_load" =>
        \A l \in SeqRange(Libraries) :
            LET samples == PositiveSamples(l)
            IN /\ {out[j].client_count : j \in OutRowsOfLibrary(l)}
                      = SeqRange(Column(samples, "active_connections"))
               /\ \A j \in OutRowsOfLibrary(l) :
                     out[j].mean_throughput =
                         MeanRate(SelectSeq(samples, LAMBDA r :
                                     r.active_connections = out[j].client_count))

\* C13 as amended: one row per library and per active_connections rounded
\* to the nearest multiple of ten (a tie to the even multiple) of the
\* samples with a positive rate, with the rounded value as client_count
\* and the mean rate of the samples of that bucket; samples of different
\* buckets never share a row, samples of the same bucket always do.
C13_GroupsByRoundedLevel ==
    call = "calculate_throughput_vs_load" =>
        /\ err = "none"
        /\ \A j, k \in 1..Len(out) :
              (out[j].library = out[k].library /\ out[j].client_count = out[k].client_count)
                  => j = k
        /\ \A l \in SeqRange(Libraries) :
              LET samples == PositiveSamples(l)
              IN /\ \A i \in 1..Len(samples) :
                       \E j \in OutRowsOfLibrary(l) :
                          NearestTen(samples[i].active_connections, out[j].client_count)
                 /\ \A j \in OutRowsOfLibrary(l) :
                       /\ InBucket(samples, out[j].client_count) # <<>>
                       /\ out[j].mean_throughput =
                              MeanRate(InBucket(samples, out[j].client_count))

\* samples at 201, 204 and 205 connections at different rates share the
\* row of client_count 200
C13_Witness ==
    /\ call = "calculate_throughput_vs_load"
    /\ LET samples == PositiveSamples("libB")
       IN /\ {201, 204, 205} = SeqRange(Column(samples, "active_connections"))
          /\ Cardinality(SeqRange(Column(samples, "messages_per_second"))) > 1
    /\ \E j \in OutRowsOfLibrary("libB") : out[j].client_count = 200
    /\ Cardinality(OutRowsOfLibrary("libB")) = 1

\* the libraries that have a sample with a positive rate
LibrariesWithRate == {l \in SeqRange(Libraries) : PositiveSamples(l) # <<>>}

\* C14 as claimed: aggregate_throughput_stats returns one row per library
\* with the statistics of the library's positive rates, and no row when no
\* sample has a positive rate.
C14_ThroughputStatsPerLibrary ==
    call = "aggregate_throughput_stats" =>
        /\ err = "none"
        /\ Len(out) = Cardinality(LibrariesWithRate)
        /\ \A l \in LibrariesWithRate :
              \E j \in 1..Len(out) :
                 LET stats == calculate_basic_stats(
                                  Column(PositiveSamples(l), "messages_per_second"))
                 IN /\ out[j].library = l
                    /\ out[j].mean = stats.mean /\ out[j].median = stats.median
                    /\ out[j].std = stats.std /\ out[j].min = stats.min
                    /\ out[j].max = stats.max /\ out[j].count = stats.count

(***************************************************************************)
(* Empty tables.                                                           *)
(***************************************************************************)
Aggregators ==
    {"aggregate_rtt_stats", "aggregate_connection_time_stats",
     "aggregate_broadcast_latency_stats", "aggregate_reliability_stats",
     "aggregate_stability_stats", "aggregate_resource_stats", "aggregate_cpu_by_phase",
     "aggregate_memory_by_phase", "calculate_throughput_vs_load",
     "calculate_performance_degradation", "detect_memory_leaks"}

\* C15: each of the eleven aggregators returns an empty table and raises
\* nothing when its input table has no row.
C15_EmptyInEmptyOut ==
    (call \in Aggregators /\ df.rows = <<>>) => (out = <<>> /\ err = "none")

C15_Witness ==
    /\ call = "aggregate_stability_stats"
    /\ df.rows = <<>>
    /\ out = <<>>
    /\ err = "none"

(***************************************************************************)
(* Standard deviation of the latency-class groups.                         *)
(***************************************************************************)
\* the sum of the squares of n * (v - mean) over the values v
RECURSIVE SumSquaredDeviations(_, _, _)
SumSquaredDeviations(vals, sum, n) ==
    IF vals = <<>> THEN 0
    ELSE (n * Head(vals) - sum) * (n * Head(vals) - sum)
         + SumSquaredDeviations(Tail(vals), sum, n)

\* C16: the std of a group of one observation is not-a-number; the std of
\* a group of n >= 2 observations is the root of the sum of the squared
\* deviations from the mean divided by n - 1.
C16_StdOfGroups ==
    call \in LatencyCalls =>
        \A k \in KeysOf(df.rows) :
            LET vals == ValuesOfKey(df.rows, k, ValueColumn[df.kind])
                n == Len(vals)
            IN \A j \in OutRowsOfKey(k) :
                  IF n = 1 THEN IsNaN(out[j].std)
                  ELSE /\ out[j].std.cls = "sqrt"
                       /\ Frac(out[j].std.num, out[j].std.den)
                              = Frac(SumSquaredDeviations(vals, SeqSum(vals), n),
                                     n * n * (n - 1))

\* a group of one observation next to a group whose observations differ
C16_Witness ==
    /\ call = "aggregate_rtt_stats"
    /\ \E j \in 1..Len(out) : out[j].count = 1 /\ IsNaN(out[j].std)
    /\ \E j \in 1..Len(out) :
          out[j].count = 2 /\ out[j].std.cls = "sqrt" /\ out[j].std.num > 0

(***************************************************************************)
(* Connection stability.                                                   *)
(***************************************************************************)
\* the number of rows of key k with a disconnect
WithDisconnects(k) ==
    Cardinality({i \in 1..Len(df.rows) :
                    RowKey(df.rows[i]) = k /\ df.rows[i].disconnect_count > 0})

\* C17 as claimed: the row of every key has clients_with_disconnects_pct =
\* 100 * (rows of the key with a disconnect) / (rows of the key).
C17_PctExact ==
    call = "aggregate_stability_stats" =>
        \A k \in KeysOf(df.rows) :
            /\ Cardinality(OutRowsOfKey(k)) = 1
            /\ \A j \in OutRowsOfKey(k) :
                  out[j].clients_with_disconnects_pct =
                      Frac(100 * WithDisconnects(k), Len(RowsOfKey(df.rows, k)))

\* C17 as amended: the same value rounded to two decimals, on the one row
\* of the key.
C17_PctRounded ==
    call = "aggregate_stability_stats" =>
        /\ err = "none"
        /\ \A j \in 1..Len(out) : <<out[j].library, out[j].client_count>> \in KeysOf(df.rows)
        /\ \A k \in KeysOf(df.rows) :
              /\ Cardinality(OutRowsOfKey(k)) = 1
              /\ \A j \in OutRowsOfKey(k) :
                    out[j].clients_with_disconnects_pct =
                        FRound(Frac(100 * WithDisconnects(k), Len(RowsOfKey(df.rows, k))), 2)

\* 1 of 3 clients of a key gives 33.33; the table has a second key, of
\* another share, whose rows come before those of a smaller key
C17_Witness ==
    /\ call = "aggregate_stability_stats"
    /\ Len(out) = 2
    /\ KeyLess(RowKey(df.rows[Len(df.rows)]), RowKey(df.rows[1]))
    /\ \E j \in 1..2 : out[j].clients_with_disconnects_pct = Frac(3333, 100)

(***************************************************************************)
(* The summary table.                                                      *)
(***************************************************************************)
\* argument a of the call is a table (not None) that has rows of library l
HasRowsOf(a, l) ==
    df[a].given /\ \E i \in 1..Len(df[a].rows) : df[a].rows[i].library = l

\* the libraries of the tables of the call that are not None and not empty
UnionOfLibraries == {l \in SeqRange(Libraries) : \E a \in SeqRange(SummaryArguments) : HasRowsOf(a, l)}

\* C18: the summary has exactly one row for each library of the union of
\* the libraries of the non-empty tables and no other row (hence no row
\* when the union is empty), and raises nothing when reliability_df or
\* stability_df is None.
C18_OneRowPerLibrary ==
    call = "create_summary_table" =>
        /\ err = "none"
        /\ \A l \in UnionOfLibraries : Cardinality(OutRowsOfLibrary(l)) = 1
        /\ \A j \in 1..Len(out) : out[j].library \in UnionOfLibraries
        /\ UnionOfLibraries = {} => out = <<>>

\* reliability_df is None and stability_df is the only table with rows of
\* libB: the summary has the rows of libA and libB
C18_Witness ==
    /\ call = "create_summary_table"
    /\ ~df.reliability_df.given
    /\ HasRowsOf("stability_df", "libB")
    /\ \A a \in SeqRange(SummaryArguments) \ {"stability_df"} : ~HasRowsOf(a, "libB")
    /\ Len(out) = 2
    /\ out[1].library = "libA" /\ out[2].library = "libB"

\* the summary fields of each metric table
MetricFields ==
    [rtt_df |-> {"rtt_mean_ms", "rtt_median_ms"},
     conn_df |-> {"conn_mean_ms", "conn_median_ms"},
     broadcast_df |-> {"broadcast_mean_ms", "broadcast_median_ms"},
     throughput_df |-> {"throughput_mean_msg_s", "throughput_max_msg_s"},
     reliability_df |-> {"message_loss_rate_pct", "messages_lost_total"},
     stability_df |-> {"disconnect_count_total", "clients_with_disconnects_pct"}]

\* C19: on the row of a library that has no row in a metric table (or the
\* table is empty or None) none of the fields of that metric is populated:
\* each is missing or null, never 0.
C19_AbsentMetricUnpopulated ==
    call = "create_summary_table" =>
        \A j \in 1..Len(out) :
            \A a \in SeqRange(SummaryArguments) :
                ~HasRowsOf(a, out[j].library) => Unpopulated(out[j], MetricFields[a])

\* the summary has the reliability columns, null on the row of a library
\* that has RTT rows but no reliability row
C19_Witness ==
    /\ call = "create_summary_table"
    /\ \E j \in 1..Len(out) :
          /\ ~HasRowsOf("reliability_df", out[j].library)
          /\ "messages_lost_total" \in DOMAIN out[j]
          /\ IsNaN(out[j]["messages_lost_total"])
          /\ IsNaN(out[j]["message_loss_rate_pct"])
          /\ HasRowsOf("rtt_df", out[j].library)
          /\ IsFin(out[j]["rtt_mean_ms"])

\* the values of column col in the rows of library l of argument a
ValuesOf(a, l, col) == Column(RowsOfLibrary(df[a].rows, l), col)

\* the mean of the values that are not null, null when there is none
MeanOfValues(vals) ==
    LET v == SelectSeq(vals, LAMBDA x : ~IsNaN(x))
    IN IF v = <<>> THEN NaN ELSE FDiv(FSum(v), Flt(Len(v)))

\* m is the median of the finite values vals: a value of the series (odd
\* length) or the mean of two neighbouring ones (even length) with as many
\* values on either side
IsMedianOf(m, vals) ==
    LET n == Len(vals)
        below == Cardinality({k \in 1..n : FGt(m, vals[k])})
        above == Cardinality({k \in 1..n : FGt(vals[k], m)})
    IN /\ below <= n \div 2 /\ above <= n \div 2
       /\ IF n % 2 = 1 THEN \E i \in 1..n : m = vals[i]
          ELSE \E i, k \in 1..n :
                  /\ i # k
                  /\ m = FDiv(FAdd(vals[i], vals[k]), Flt(2))
                  /\ ~\E x \in 1..n : FGt(vals[x], vals[i]) /\ FGt(vals[k], vals[x])

LatencyFields ==
    [rtt_df |-> <<"rtt_mean_ms", "rtt_median_ms">>,
     conn_df |-> <<"conn_mean_ms", "conn_median_ms">>,
     broadcast_df |-> <<"broadcast_mean_ms", "broadcast_median_ms">>]

\* C20: on the row of a library, for each metric table that has rows of
\* the library: the mean of their mean and the median of their median for
\* RTT, connection time and broadcast latency; mean and max of the first
\* of them for throughput; the mean of their total_loss_rate (of those
\* that are not null) and the sum of their messages_lost_sum for
\* reliability; the sum of their disconnect_count_sum and the mean of
\* their clients_with_disconnects_pct for stability.
C20_Rollups ==
    call = "create_summary_table" =>
        \A j \in 1..Len(out) :
            LET l == out[j].library
            IN /\ \A a \in DOMAIN LatencyFields :
                     HasRowsOf(a, l) =>
                        /\ out[j][LatencyFields[a][1]] = MeanOfValues(ValuesOf(a, l, "mean"))
                        /\ IsMedianOf(out[j][LatencyFields[a][2]], ValuesOf(a, l, "median"))
               /\ HasRowsOf("throughput_df", l) =>
                     /\ out[j]["throughput_mean_msg_s"] = ValuesOf("throughput_df", l, "mean")[1]
                     /\ out[j]["throughput_max_msg_s"] = ValuesOf("throughput_df", l, "max")[1]
               /\ HasRowsOf("reliability_df", l) =>
                     /\ out[j]["message_loss_rate_pct"]
                            = MeanOfValues(ValuesOf("reliability_df", l, "total_loss_rate"))
                     /\ out[j]["messages_lost_total"]
                            = Flt(SeqSum(ValuesOf("reliability_df", l, "messages_lost_sum")))
               /\ HasRowsOf("stability_df", l) =>
                     /\ out[j]["disconnect_count_total"]
                            = Flt(SeqSum(ValuesOf("stability_df", l, "disconnect_count_sum")))
                     /\ out[j]["clients_with_disconnects_pct"]
                            = MeanOfValues(ValuesOf("stability_df", l,
                                                    "clients_with_disconnects_pct"))

\* a library with two load levels in every table: the rollups differ from
\* the values of any single row
C20_Witness ==
    /\ call = "create_summary_table"
    /\ \E j \in 1..Len(out) :
          /\ \A a \in SeqRange(SummaryArguments) \ {"broadcast_df"} :
                df[a].given /\ Len(RowsOfLibrary(df[a].rows, out[j].library)) >= 2
          /\ out[j]["rtt_mean_ms"] \notin SeqRange(ValuesOf("rtt_df", out[j].library, "mean"))
          /\ out[j]["throughput_mean_msg_s"]
                 # ValuesOf("throughput_df", out[j].library, "mean")[2]

(***************************************************************************)
(* The operations leave their input alone.                                 *)
(***************************************************************************)
\* the table operation c returns when it is called on table t
Returned(c, t) ==
    CASE c = "aggregate_rtt_stats" -> aggregate_rtt_stats(t.rows)
      [] c = "aggregate_connection_time_stats" -> aggregate_connection_time_stats(t.rows)
      [] c = "aggregate_broadcast_latency_stats" -> aggregate_broadcast_latency_stats(t.rows)
      [] c = "aggregate_reliability_stats" -> aggregate_reliability_stats(t.rows)
      [] c = "aggregate_stability_stats" -> aggregate_stability_stats(t.rows)
      [] c = "calculate_throughput_vs_load" -> calculate_throughput_vs_load(t.rows)
      [] c = "calculate_performance_degradation" -> calculate_performance_degradation(t.rows)
      [] c = "detect_memory_leaks" -> detect_memory_leaks(t)
      [] c = "aggregate_resource_stats" -> aggregate_resource_stats(t)
      [] c = "aggregate_cpu_by_phase" -> aggregate_cpu_by_phase(t)
      [] c = "aggregate_memory_by_phase" -> aggregate_memory_by_phase(t)
      [] c = "create_summary_table" -> create_summary_table(t)
      [] OTHER -> <<>>

ServerRank(s) == CHOOSE i \in 1..Len(Servers) : Servers[i] = s

\* the grouping key of an output row as a pair of ranks
OutKey(r) ==
    CASE call \in {"aggregate_rtt_stats", "aggregate_connection_time_stats",
                   "aggregate_broadcast_latency_stats", "aggregate_reliability_stats",
                   "aggregate_stability_stats", "calculate_throughput_vs_load"}
             -> <<LibRank(r.library), r.client_count>>
      [] call \in {"calculate_performance_degradation", "create_summary_table"}
             -> <<LibRank(r.library), 0>>
      [] call = "aggregate_resource_stats" -> <<ServerRank(r.server), 0>>
      [] call \in {"aggregate_cpu_by_phase", "aggregate_memory_by_phase"}
             -> <<ServerRank(r.server), r.client_count>>

\* C22: the rows of the output of every aggregate operation are in
\* ascending order of the grouping key, whatever the order of the input
\* rows.
C22_OutputSortedByKey ==
    (call \notin {"none", "detect_memory_leaks", "aggregate_throughput_stats"}) =>
        \A j \in 1..(Len(out) - 1) :
            LET a == OutKey(out[j])
                b == OutKey(out[j + 1])
            IN a[1] < b[1] \/ (a[1] = b[1] /\ a[2] < b[2])

(***************************************************************************)
(* The analysis run.                                                       *)
(***************************************************************************)
\* C23: a run of main() ends with a non-zero exit status if and only if
\* the data directory does not exist.
C23_AbortsIffNoDataDir ==
    (call = "main" /\ pc = "exited") => (status # <<0>> <=> ~df.exists)

\* C24: a run on an existing data directory with the RTT files of a
\* library completes the stages load, the seven aggregations, the summary
\* table, export and visualize in this order, reaches the final summary
\* and returns 0.
C24_ReachesAnalysisComplete ==
    [](("rtt" \in df.files /\ pc = "initialize") =>
          <>(/\ status = <<0>>
             /\ [i \in 1..Len(out) |-> out[i].stage] = <<"load">> \o Stages))

(***************************************************************************)
(* Load phases of the resource metrics.                                    *)
(***************************************************************************)
PhaseCalls == {"aggregate_cpu_by_phase", "aggregate_memory_by_phase"}

\* the samples (indices of df.rows) of server s taken with connections
LoadedSamples(s) ==
    {i \in 1..Len(df.rows) : df.rows[i].server = s /\ df.rows[i].active_connections > 0}

\* the column whose mean a phase row of server s reports, and the field
\* of the row that holds it
PhaseColumn(s) ==
    IF call = "aggregate_cpu_by_phase" THEN "cpu_percent"
    ELSE IF s = "golang-gorilla" THEN "memory_alloc_mb" ELSE "memory_rss_mb"

PhaseField(s) ==
    IF call = "aggregate_cpu_by_phase" THEN "cpu_percent_mean"
    ELSE IF s = "golang-gorilla" THEN "memory_alloc_mb_mean" ELSE "memory_rss_mb_mean"

\* the values of column col of the samples in I, in table order
ValuesAt(I, col) ==
    LET picked == SelectSeq([i \in 1..Len(df.rows) |-> [i |-> i, v |-> df.rows[i][col]]],
                            LAMBDA x : x.i \in I)
    IN [k \in 1..Len(picked) |-> picked[k].v]

\* C25: for each server the rows of a phase aggregator are one per load
\* bucket: the samples of the server taken with connections can be dealt
\* to its rows so that each sample is within 5 of the client_count of its
\* row, a multiple of ten, no row is left without a sample, no two rows
\* have the same client_count, and the mean of each row is the mean of
\* exactly the samples dealt to it; samples without connections are in no
\* row.
C25_OneRowPerBucket ==
    (call \in PhaseCalls /\ err = "none") =>
        \A s \in SeqRange(Servers) :
            LET J == OutRowsOfServer(s)
                I == LoadedSamples(s)
            IN /\ \A j, k \in J : j # k => out[j].client_count # out[k].client_count
               /\ \E f \in [I -> J] :
                     /\ \A i \in I :
                           /\ out[f[i]].client_count % 10 = 0
                           /\ Abs(out[f[i]].client_count - df.rows[i].active_connections) <= 5
                     /\ \A j \in J :
                           LET mine == {i \in I : f[i] = j}
                           IN /\ mine # {}
                              /\ out[j][PhaseField(s)]
                                     = FRound(MeanOfValues(ValuesAt(mine, PhaseColumn(s))), 2)

\* a server with an idle sample and two samples of one bucket that differ
C25_Witness ==
    /\ call = "aggregate_cpu_by_phase"
    /\ Len(out) = 1
    /\ \E i \in 1..Len(df.rows) :
          df.rows[i].server = out[1].server /\ df.rows[i].active_connections = 0
    /\ \E i, k \in LoadedSamples(out[1].server) :
          df.rows[i].cpu_percent # df.rows[k].cpu_percent

\* server s has a value that is not null in column col among its samples
\* taken with connections
Holds(s, col) ==
    col \in df.columns /\ \E i \in LoadedSamples(s) : ~IsNaN(df.rows[i][col])

GoroutineMemoryFields == {"memory_alloc_mb_mean", "memory_sys_mb_mean", "gc_count"}

EventLoopMemoryFields ==
    {"memory_rss_mb_mean", "memory_heap_used_mb_mean", "memory_heap_total_mb_mean",
     "memory_external_mb_mean"}

\* C26: a row of aggregate_memory_by_phase of a server whose
\* memory_alloc_mb holds values (goroutine style) has the four event-loop
\* fields null, a row of a server whose memory_rss_mb alone holds values
\* (event-loop style) has the three goroutine fields null, each server is
\* classified by its own values, and no row has values that are not null
\* of both styles.
C26_OnlyFieldsOfOwnStyle ==
    (call = "aggregate_memory_by_phase" /\ err = "none") =>
        \A j \in 1..Len(out) :
            /\ Holds(out[j].server, "memory_alloc_mb")
                   => \A f \in EventLoopMemoryFields : IsNaN(out[j][f])
            /\ (~Holds(out[j].server, "memory_alloc_mb")
                /\ Holds(out[j].server, "memory_rss_mb"))
                   => \A f \in GoroutineMemoryFields : IsNaN(out[j][f])
            /\ \/ \A f \in EventLoopMemoryFields : IsNaN(out[j][f])
               \/ \A f \in GoroutineMemoryFields : IsNaN(out[j][f])

\* a table of both styles: one row of each, each with the values of its
\* own style
C26_Witness ==
    /\ call = "aggregate_memory_by_phase"
    /\ \E j, k \in 1..Len(out) :
          /\ out[j].server = "golang-gorilla" /\ IsFin(out[j].memory_alloc_mb_mean)
          /\ IsNaN(out[j].memory_rss_mb_mean)
          /\ out[k].server = "ws" /\ IsFin(out[k].memory_rss_mb_mean)
          /\ IsNaN(out[k].memory_alloc_mb_mean) /\ IsNaN(out[k].gc_count)

(***************************************************************************)
(* Leak detection in tables of both runtimes, and with missing values.     *)
(***************************************************************************)
\* server s reported the metric of column col in one sample at least
Reported(s, col) ==
    col \in df.columns
    /\ \E i \in 1..Len(df.rows) : df.rows[i].server = s /\ ~IsNaN(df.rows[i][col])

\* C27: detect_memory_leaks emits a row of a server and a memory metric
\* only when that server itself reported the metric.
C27_RowsOnlyForReportedMetrics ==
    call = "detect_memory_leaks" =>
        \A j \in 1..Len(out) : Reported(out[j].server, ColumnOfMetric(out[j].metric))

(***************************************************************************)
(* The lowest load level of the phase aggregators.                         *)
(***************************************************************************)
\* C28 as stated: every row of a phase aggregator has client_count >= 10.
C28_NoLevelBelowTen ==
    call \in PhaseCalls => \A j \in 1..Len(out) : out[j].client_count >= 10

\* C28: no row of a phase aggregator has a negative client_count, and a
\* server has a row of load level 0 (the only level below 10) exactly when
\* it has samples with 1 to 5 connections; idle samples make no row.
C28_LevelZeroOnlyFromOneToFive ==
    (call \in PhaseCalls /\ err = "none") =>
        /\ \A j \in 1..Len(out) : out[j].client_count >= 0
        /\ \A s \in SeqRange(Servers) :
              (\E j \in OutRowsOfServer(s) : out[j].client_count < 10)
                  <=> (\E i \in LoadedSamples(s) : df.rows[i].active_connections <= 5)

\* a server with an idle sample and a sample with 5 connections: its row
\* is labelled 0
C28_Witness ==
    /\ call \in PhaseCalls
    /\ \E j \in 1..Len(out) :
          /\ out[j].client_count = 0
          /\ \E i \in 1..Len(df.rows) :
                df.rows[i].server = out[j].server /\ df.rows[i].active_connections = 0

\* the rows of table t in two other orders
Reversed(t) == [t EXCEPT !.rows = Reverse(t.rows)]

Rotated(t) == [t EXCEPT !.rows = IF t.rows = <<>> THEN <<>> ELSE Tail(t.rows) \o <<Head(t.rows)>>]

LeakRowsOf(rows, s) == SelectSeq(rows, LAMBDA r : r.server = s)

\* C29: the leak rows of a server do not depend on the order of the input
\* rows: the rows of the table in reverse and in rotated order give the
\* same rows for the server; start_memory_mb is the value at the earliest
\* timestamp, end_memory_mb the value at the latest, and the growth rate
\* is the slope over the seconds elapsed since the earliest timestamp.
C29_IndependentOfRowOrder ==
    call = "detect_memory_leaks" =>
        /\ LET reversed == detect_memory_leaks(Reversed(df))
               rotated == detect_memory_leaks(Rotated(df))
           IN \A s \in SeqRange(Servers) :
                  /\ LeakRowsOf(out, s) = LeakRowsOf(reversed, s)
                  /\ LeakRowsOf(out, s) = LeakRowsOf(rotated, s)
        /\ \A j \in 1..Len(out) :
              LET S == SamplesOf(out[j].server)
                  col == ColumnOfMetric(out[j].metric)
                  earliest == CHOOSE r \in S : \A o \in S : r.timestamp <= o.timestamp
                  latest == CHOOSE r \in S : \A o \in S : o.timestamp <= r.timestamp
              IN /\ out[j].start_memory_mb = FRound(earliest[col], 2)
                 /\ out[j].end_memory_mb = FRound(latest[col], 2)
                 /\ ElapsedOfRow(j)[1] = 0
                 /\ out[j].growth_rate_mb_per_hour
                        = FRound(FMul(RegressionOfRow(j).slope, Flt(3600)), 4)

\* rows given in reverse chronological order: the first row of the table
\* holds the latest timestamp and another value than the start
C29_Witness ==
    /\ call = "detect_memory_leaks"
    /\ \E j \in 1..Len(out) :
          /\ df.rows[1].server = out[j].server
          /\ \A r \in SamplesOf(out[j].server) : r.timestamp <= df.rows[1].timestamp
          /\ IsFin(out[j].start_memory_mb)
          /\ out[j].start_memory_mb # FRound(df.rows[1][ColumnOfMetric(out[j].metric)], 2)
          /\ out[j].end_memory_mb = FRound(df.rows[1][ColumnOfMetric(out[j].metric)], 2)

\* C30: a row of a server and a metric whose series (the samples of the
\* server with a valid timestamp) has a missing value has leak_detected
\* false and an undefined slope and fit, and detect_memory_leaks raises
\* nothing.
C30_NoLeakFromMissingValues ==
    call = "detect_memory_leaks" =>
        \A j \in 1..Len(out) :
            (\E r \in SamplesOf(out[j].server) : IsNaN(r[ColumnOfMetric(out[j].metric)]))
                => /\ err = "none"
                   /\ out[j].leak_detected = FALSE
                   /\ IsNaN(out[j].growth_rate_mb_per_hour)
                   /\ IsNaN(out[j].r_squared)

\* a series that grows by 1 MB a minute with one value missing: without
\* the gap it is reported as a leak
C30_Witness ==
    /\ call = "detect_memory_leaks"
    /\ \E j \in 1..Len(out) :
          LET v == ValuesOfRow(j)
          IN /\ \E i \in 1..Len(v) : IsNaN(v[i])
             /\ \E i \in 1..Len(v) : IsFin(v[i])
             /\ IsNaN(out[j].growth_rate_mb_per_hour)
             /\ out[j].leak_detected = FALSE
             /\ IsFin(out[j].start_memory_mb)

====
